---- MODULE Spec2Model ----
(***************************************************************************)
(* LitePCIe Windows driver, Device.c: the DMA ring counters, the interrupt *)
(* top half (litepcie_EvtIsr) and deferred pass (litepcie_EvtDpc), the     *)
(* read/write fulfilment (litepciedrv_ChannelRead / litepciedrv_Channel-   *)
(* Write), ring start/stop and device attach (litepciedrv_DeviceOpen).     *)
(*                                                                         *)
(* A ring is named by a key <<channel, direction>>.  ChannelRead works on  *)
(* the "writer" ring (device to host) and parks in readRequest;            *)
(* ChannelWrite works on the "reader" ring and parks in writeRequest.  The *)
(* parked slot is therefore stored under the key of the ring it waits on.  *)
(*                                                                         *)
(* Ten specifications share the state: Spec interleaves requests, ring     *)
(* start/stop, the interrupt top half and the deferred pass; SpecRequests  *)
(* is Spec without ring start/stop; SpecReconcile feeds sequences of       *)
(* loop-status values to the deferred pass alone; SpecLive is a started    *)
(* ring with fair scheduling and fair hardware; SpecOpen is the attach     *)
(* over its inputs; SpecSteady is a started ring with one request;         *)
(* SpecControl is start, stop and DeviceClose with the log of their        *)
(* register accesses; SpecIrq is the interrupt path with the outputs of    *)
(* the top half; SpecMask is the interrupt enable mask under               *)
(* litepcie_enable_interrupt / litepcie_disable_interrupt; SpecDuplex has  *)
(* requests on two rings, of one channel or of two.                         *)
(*                                                                         *)
(* The device has DMA_CHANNELS channels.  Every specification carries the  *)
(* state of all of them and the loops of the deferred pass and of the      *)
(* teardown visit all of them; the applications of SpecDuplex use rings of *)
(* both channels, those of the other specifications rings of channel 0.    *)
(*                                                                         *)
(* Granularity: a step holds at most one access to memory shared between   *)
(* threads (the ring counters, the parked slot and its remaining bytes,    *)
(* irqs_pending, irqs_requested), so x += y and x |= y are a load step and *)
(* a store step, and each framework call and each lock acquisition or      *)
(* release is a step.  A run of register writes with no wait and no shared *)
(* memory access between them is one step.  The ring's spin lock is a      *)
(* variable: a step that acquires it is enabled only while it is free.     *)
(* Control requests (start, stop, enable, disable, close) are serialised.  *)
(*                                                                         *)
(* Build: the descriptor word of start carries DMA_LAST_DISABLE unless     *)
(* DMA_BUFFER_ALIGNED is defined, and the header that decides is not part  *)
(* of the sources; the specifications that start a ring run both builds.   *)
(*                                                                         *)
(* Counters are INT64 in the driver.  Every value of the model stays below *)
(* 2^31, so bits 31..63 of a counter are zero and the 64-bit mask of the   *)
(* reconcile step is applied bit by bit on bits 0..30.                     *)
(***************************************************************************)
EXTENDS Integers, Sequences, FiniteSets, TLC

(* ---- configuration macros (csr.h / config header of the driver) ------- *)
DMA_CHANNELS == 2
DMA_BUFFER_COUNT == 8
DMA_BUFFER_SIZE == 4096
DMA_BUFFER_PER_IRQ == 2
PCIE_DMA_READER_INTERRUPT_BASE == 0
PCIE_DMA_WRITER_INTERRUPT_BASE == 1

(* ---- widths written in Device.c --------------------------------------- *)
LoopStatusShift == 16
LoopStatusIndexMask == 65535

(* ---- bounds of the model ---------------------------------------------- *)
MaxRequests == 2
MaxBlocks == 3
MaxRawIndex == 5
MaxCompletions == 2
MaxReconcileSteps == 3
MaxResources == 2
MaxControlCalls == 3
MaxInterrupts == 3
MaxRaceCalls == 1
MaxRaceInterrupts == 2

Chans == 0 .. (DMA_CHANNELS - 1)
Dirs == {"reader", "writer"}
Rings == Chans \X Dirs
(* The two rings of channel c. *)
ChannelRings(c) == {c} \X Dirs
NULL == 0
Requests == 1 .. MaxRequests
DpcCtx == 0
CtxIds == {DpcCtx} \cup Requests


(* reader_interrupt / writer_interrupt of channel c (DeviceOpen's switch). *)
interrupt_bit(k) ==
    IF k[2] = "reader" THEN PCIE_DMA_READER_INTERRUPT_BASE + 2 * k[1]
                       ELSE PCIE_DMA_WRITER_INTERRUPT_BASE + 2 * k[1]


(* ---- bit arithmetic ---------------------------------------------------- *)
Pow2(n) == 2 ^ n
Bit(x, b) == (x \div Pow2(b)) % 2
ValueBits == 0 .. 30

RECURSIVE SumBits(_, _)
SumBits(f, b) == IF b < 0 THEN 0 ELSE f[b] * Pow2(b) + SumBits(f, b - 1)

(* leftmost_bit: index of the highest set bit. *)
RECURSIVE leftmost_bit(_)
leftmost_bit(x) == IF x > 1 THEN 1 + leftmost_bit(x \div 2) ELSE 0

(* Bit b of the constant ((~(n - 1) << 16) & 0xffffffffffff0000): the low   *)
(* 16 bits are zero, bits 16..31 are the complement of bits 0..15 of n - 1. *)
ReconcileMaskBit(b, n) ==
    IF b < LoopStatusShift THEN 0 ELSE 1 - Bit(n - 1, b - LoopStatusShift)

(* A reconcile that keeps the stale low bits of the previous count. *)
MaskCountKeep(hw, n) == hw

(* hw_count &= mask *)
MaskCount(hw, n) ==
    SumBits([b \in ValueBits |-> Bit(hw, b) * ReconcileMaskBit(b, n)], 30)

BitOr(x, y) ==
    SumBits([b \in ValueBits |-> IF Bit(x, b) = 1 \/ Bit(y, b) = 1 THEN 1 ELSE 0], 30)

(* A reconcile that takes only the slot index of the loop status. *)
LoopStatusCountIndexOnly(loop_status, n) == loop_status.index

(* A loop-status register value is kept as its two 16-bit halves:          *)
(* loops = loop_status >> 16, index = loop_status & 0xffff.                *)
LoopStatusCount(loop_status, n) == loop_status.loops * n + loop_status.index

(* (INT64)(1UL << (leftmost_bit(DMA_BUFFER_COUNT) + 16)) *)
WrapIncrement(n) == Pow2(leftmost_bit(n) + LoopStatusShift)

(* A reconcile without the wrap test. *)
WrapNeededNever(hw, last) == FALSE

(* if (hw_count_last > hw_count) *)
WrapNeeded(hw, last) == last > hw

(* ---- inputs ------------------------------------------------------------ *)
(* Raw loop-status values the deferred pass may read. *)
RawIndexes == {0, 1, MaxBlocks, MaxRawIndex} \cap (0 .. DMA_BUFFER_COUNT - 1)
RawStatus == [loops : {0}, index : RawIndexes]
(* Request lengths: empty, less than a block, whole blocks, blocks and a    *)
(* remainder.                                                               *)
Lengths == {0, DMA_BUFFER_SIZE - 1, MaxBlocks * DMA_BUFFER_SIZE, MaxBlocks * DMA_BUFFER_SIZE + 1}


(* ---- state ------------------------------------------------------------- *)
VARIABLES
    hw_count,                 \* [Rings -> Int]  reader_hw_count / writer_hw_count
    hw_count_last,            \* [Rings -> Int]  reader_hw_count_last / writer_hw_count_last
    sw_count,                 \* [Rings -> Int]  reader_sw_count / writer_sw_count
    pending_request,          \* [Rings -> request id or NULL]  writeRequest / readRequest
    pending_remaining_bytes,  \* [Rings -> Nat]  writeRemainingBytes / readRemainingBytes
    dma_enable,               \* [Rings -> 0..1] PCIE_DMA_{READER,WRITER}_ENABLE register
    irqs_requested,           \* dev->irqs_requested, as the set of its 1 bits
    irqs_pending,             \* dev->irqs_pending, as the set of its 1 bits
    msi_enable,               \* CSR_PCIE_MSI_ENABLE register, as the set of its 1 bits
    dpc_queued,               \* a deferred pass has been queued by the top half
    lock,                     \* [Rings -> holder of readerLock / writerLock]
    dpc,                      \* position and locals of litepcie_EvtDpc
    ctx,                      \* [CtxIds -> position and locals of one ChannelRead/ChannelWrite call]
    irq,                      \* position and locals of litepcie_EvtIsr
    ctl,                      \* position and ring of the start / stop / close in progress
    reqs,                     \* [Requests -> the request handed in by the dispatcher]
    completions,              \* [Requests -> sequence of WdfRequestCompleteWithInformation calls]
    user_rings,               \* the rings the application of this run drives
    attach,                   \* SpecOpen: the inputs and the outcome of litepciedrv_DeviceOpen
    mmio,                     \* the register accesses of the last control call, in order
    calls,                    \* the control calls made so far
    isr,                      \* top halves run; SpecIrq: vector, return value and clear write of the last
    arrived,                  \* SpecIrq: bits the top half stored since the running pass took its snapshot
    probe                     \* the build (ring depth, DMA_BUFFER_ALIGNED); SpecReconcile: loop-status values read, counters at the lock

ringVars == <<hw_count, hw_count_last, sw_count, dma_enable>>
slotVars == <<pending_request, pending_remaining_bytes>>
irqVars == <<irqs_requested, irqs_pending, msi_enable, dpc_queued>>
reqVars == <<reqs, completions>>
envVars == <<user_rings, attach>>
(* The execution contexts: the request-context calls and the call of the    *)
(* deferred pass (ctx), the deferred pass, the top half, the control call,  *)
(* and the ring locks they take.                                            *)
runVars == <<lock, dpc, ctx, irq, ctl>>
(* The log of the control calls, and what the dedicated specifications       *)
(* observe of the top half and of the reconcile.                            *)
obsVars == <<mmio, calls, isr, arrived, probe>>
vars == <<ringVars, slotVars, irqVars, runVars, reqVars, envVars, obsVars>>

(* val is the register a loaded counter is held in: the hw_count and then   *)
(* the available_count of the snapshot, the sw_count of the increment.      *)
IdleCtx ==
    [pc |-> "idle", ring |-> <<0, "reader">>, req |-> NULL, length |-> 0,
     done |-> 0, overflows |-> 0, val |-> 0]

NoStatus == [loops |-> 0, index |-> 0]

(* val is the register a loaded hw_count is held in, last the loaded        *)
(* hw_count_last, request the loaded writeRequest / readRequest, pending    *)
(* the loaded irqs_pending.  A local is zeroed after its last use.          *)
IdleDpc ==
    [pc |-> "idle", pos |-> 0, irq_enable |-> {}, irq_vector |-> {}, clear_mask |-> {},
     loop_status |-> NoStatus, val |-> 0, last |-> 0, request |-> NULL, pending |-> {}]

(* val is the register the loaded irqs_pending is held in. *)
IdleIrq == [pc |-> "idle", irqVec |-> {}, val |-> {}]

NoRequest == [used |-> FALSE, ring |-> <<0, "reader">>, length |-> 0]

NoProbe == [depth |-> DMA_BUFFER_COUNT, aligned |-> FALSE, trace |-> <<>>, hw |-> 0, last |-> 0]
NotAttached == [state |-> "none"]

Free == -1
IdleCtl == [pc |-> "idle", ring |-> <<0, "reader">>]
NoIsr == [runs |-> 0, vector |-> {}, handled |-> FALSE, clear |-> <<>>]

(* No control call made, no interrupt seen. *)
InitLog ==
    /\ mmio = <<>>
    /\ calls = <<>>
    /\ isr = NoIsr
    /\ arrived = {}

(* The ring depth is the configured one and DMA_BUFFER_ALIGNED is not       *)
(* defined: the initial state of the specifications that program no         *)
(* descriptor table, the one place where the macro is tested.               *)
InitObserved ==
    /\ InitLog
    /\ probe = NoProbe

(* DMA_BUFFER_COUNT of the build. *)
Depth == probe.depth

(* #ifndef DMA_BUFFER_ALIGNED: whether the build defines the macro.  Device.c *)
(* does not define it; the configuration header decides.                    *)
DMA_BUFFER_ALIGNED == probe.aligned

(* The system runs until the framework stops it or the device is torn down. *)
Running == dpc.pc # "bugcheck" /\ ctl.pc \notin {"close msi", "close unmap", "closed"}

(* A step that is neither logged nor observed. *)
Unobserved == Running /\ UNCHANGED obsVars

(* The device context after a successful attach is memset to zero: rings    *)
(* stopped, counters zero, nothing parked; no lock is held and nothing      *)
(* runs.                                                                    *)
InitDevice ==
    /\ hw_count = [k \in Rings |-> 0]
    /\ hw_count_last = [k \in Rings |-> 0]
    /\ sw_count = [k \in Rings |-> 0]
    /\ pending_request = [k \in Rings |-> NULL]
    /\ pending_remaining_bytes = [k \in Rings |-> 0]
    /\ dma_enable = [k \in Rings |-> 0]
    /\ irqs_pending = {}
    /\ dpc_queued = FALSE
    /\ lock = [k \in Rings |-> Free]
    /\ dpc = IdleDpc
    /\ ctx = [x \in CtxIds |-> IdleCtx]
    /\ irq = IdleIrq
    /\ ctl = IdleCtl
    /\ reqs = [r \in Requests |-> NoRequest]
    /\ completions = [r \in Requests |-> <<>>]

(* A run drives one ring of channel 0, either direction, with that ring's   *)
(* interrupt enabled (litepcie_enable_interrupt has run).                   *)
InitUser ==
    \E k \in ChannelRings(0) :
        /\ user_rings = {k}
        /\ irqs_requested = {interrupt_bit(k)}
        /\ msi_enable = {interrupt_bit(k)}

(* Either build of the driver, with or without DMA_BUFFER_ALIGNED. *)
Init ==
    /\ InitDevice
    /\ InitUser
    /\ InitLog
    /\ \E aligned \in BOOLEAN : probe = [NoProbe EXCEPT !.aligned = aligned]
    /\ attach = NotAttached

(* The same with the build fixed, for the runs that make no start. *)
InitRequests ==
    /\ InitDevice
    /\ InitUser
    /\ InitObserved
    /\ attach = NotAttached

(* ---- request dispatch -------------------------------------------------- *)
Resolved(r) == completions[r] # <<>>

(* The dispatcher hands a new request to a direction only when every        *)
(* earlier request of that direction has been completed.                    *)
DispatcherAccepts(k) == \A r \in Requests : (reqs[r].used /\ reqs[r].ring = k) => Resolved(r)

FreeRequests == {r \in Requests : ~reqs[r].used}
NextRequest == CHOOSE r \in FreeRequests : \A q \in FreeRequests : r <= q

(* The model follows a request up to MaxCompletions completion calls. *)
CanComplete(r) == Len(completions[r]) < MaxCompletions

(* WdfRequestCompleteWithInformation(request, status, information) *)
Completed(r, status, information) ==
    [completions EXCEPT ![r] = Append(@, [status |-> status, information |-> information])]

(* ---- litepciedrv_ChannelRead / litepciedrv_ChannelWrite ---------------- *)
(* Every access to a field of the device context is a step of its own: a    *)
(* load into a local of the call, or a store.  What a call does to its      *)
(* locals is part of the step of the access before it.                      *)

(* while (bytes < length) { if ((length - bytes) < DMA_BUFFER_SIZE) break; *)
CanCopy(length, done) == done < length /\ ~(length - done < DMA_BUFFER_SIZE)

(* The position after the loop test, which reads locals only. *)
LoopPc(length, done) == IF CanCopy(length, done) THEN "loop" ELSE "finish"

(* The availability with its operands exchanged. *)
AvailableSwapped(hw, sw) == sw - hw

(* available_count = hw_count - sw_count *)
Available(hw, sw) == hw - sw

(* An overflow test against the ring depth alone. *)
IsOverflowAtDepth(avail) == avail > DMA_BUFFER_COUNT

(* if (available_count > DMA_BUFFER_COUNT - DMA_BUFFER_PER_IRQ) overflows++ *)
IsOverflow(avail) == avail > DMA_BUFFER_COUNT - DMA_BUFFER_PER_IRQ

(* The completion test the source keeps commented out:                     *)
(* if ((length - bytes) < DMA_BUFFER_SIZE)                                  *)
FinishCompletesOnShortRemainder(length, done) == length - done < DMA_BUFFER_SIZE

(* if (bytes > 0) complete else park *)
FinishCompletes(length, done) == done > 0

(* A parking that records only the whole blocks still wanted. *)
ParkRemainingWholeBlocks(length, done) == ((length - done) \div DMA_BUFFER_SIZE) * DMA_BUFFER_SIZE

(* pending_remaining_bytes = length - bytes *)
ParkRemaining(length, done) == length - done

(* Entry of a call on ring k with (request, length), up to the result ok of *)
(* WdfRequestRetrieveOutputMemory / WdfRequestRetrieveInputMemory.          *)
EnterCall(k, r, length, ok) ==
    IF ok THEN [pc |-> LoopPc(length, 0), ring |-> k, req |-> r, length |-> length,
                done |-> 0, overflows |-> 0, val |-> 0]
          ELSE IdleCtx

(* On a failed retrieve the call completes the request with the error and   *)
(* returns.                                                                 *)
EnterCompletions(r, ok) ==
    IF ok THEN completions ELSE Completed(r, "STATUS_ERROR", 0)

(* What no step of a fulfilment call changes. *)
callFrame == <<hw_count, hw_count_last, dma_enable, irqVars, dpc, irq, ctl, reqs, envVars>>

(* A request arrives from the dispatcher: ChannelRead (k a writer ring) or  *)
(* ChannelWrite (k a reader ring) is entered in request context.            *)
Submit(k, length, ok) ==
    /\ FreeRequests # {}
    /\ DispatcherAccepts(k)
    /\ LET r == NextRequest IN
         /\ ok \/ CanComplete(r)
         /\ reqs' = [reqs EXCEPT ![r] = [used |-> TRUE, ring |-> k, length |-> length]]
         /\ ctx' = [ctx EXCEPT ![r] = EnterCall(k, r, length, ok)]
         /\ completions' = EnterCompletions(r, ok)
    /\ UNCHANGED <<ringVars, slotVars, irqVars, lock, dpc, irq, ctl, envVars>>

(* WdfSpinLockAcquire(writerLock / readerLock) *)
LockForSnapshot(x) ==
    /\ ctx[x].pc = "loop"
    /\ lock[ctx[x].ring] = Free
    /\ lock' = [lock EXCEPT ![ctx[x].ring] = x]
    /\ ctx' = [ctx EXCEPT ![x].pc = "hw"]
    /\ UNCHANGED <<sw_count, slotVars, completions, callFrame>>

(* The load of hw_count for the availability. *)
LoadHwCount(x) ==
    /\ ctx[x].pc = "hw"
    /\ ctx' = [ctx EXCEPT ![x].val = hw_count[ctx[x].ring], ![x].pc = "sw"]
    /\ UNCHANGED <<sw_count, slotVars, completions, lock, callFrame>>

(* The load of sw_count: available_count = hw_count - sw_count. *)
Snapshot(x) ==
    /\ ctx[x].pc = "sw"
    /\ ctx' = [ctx EXCEPT ![x].val = Available(ctx[x].val, sw_count[ctx[x].ring]),
                          ![x].pc = "unlock"]
    /\ UNCHANGED <<sw_count, slotVars, completions, lock, callFrame>>

(* WdfSpinLockRelease, and the two tests on available_count. *)
Unlock(x) ==
    /\ ctx[x].pc = "unlock"
    /\ lock' = [lock EXCEPT ![ctx[x].ring] = Free]
    /\ IF ctx[x].val > 0
         THEN ctx' = [ctx EXCEPT ![x].pc = "copy", ![x].val = 0,
                        ![x].overflows = IF IsOverflow(ctx[x].val) THEN @ + 1 ELSE @]
         ELSE ctx' = [ctx EXCEPT ![x].pc = "finish", ![x].val = 0]
    /\ UNCHANGED <<sw_count, slotVars, completions, callFrame>>

(* WdfMemoryCopyFromBuffer / WdfMemoryCopyToBuffer of one block, with the    *)
(* slot handle[sw_count % DMA_BUFFER_COUNT].                                 *)
CopyBuffer(x) ==
    /\ ctx[x].pc = "copy"
    /\ ctx' = [ctx EXCEPT ![x].pc = "count"]
    /\ UNCHANGED <<sw_count, slotVars, completions, lock, callFrame>>

(* sw_count += 1: the load. *)
LoadSwCount(x) ==
    /\ ctx[x].pc = "count"
    /\ ctx' = [ctx EXCEPT ![x].val = sw_count[ctx[x].ring], ![x].pc = "store"]
    /\ UNCHANGED <<sw_count, slotVars, completions, lock, callFrame>>

(* A store that counts the block on both directions of the channel. *)
AdvanceSwCountOfChannel(x) ==
    sw_count' = [k \in Rings |-> IF k[1] = ctx[x].ring[1] THEN ctx[x].val + 1 ELSE sw_count[k]]

(* sw_count += 1: the store. *)
AdvanceSwCount(x) ==
    sw_count' = [sw_count EXCEPT ![ctx[x].ring] = ctx[x].val + 1]

(* The store of sw_count += 1; bytes += DMA_BUFFER_SIZE; and the loop test   *)
(* that follows.                                                             *)
CountCopied(x) ==
    /\ ctx[x].pc = "store"
    /\ AdvanceSwCount(x)
    /\ ctx' = [ctx EXCEPT ![x].done = @ + DMA_BUFFER_SIZE, ![x].val = 0,
                          ![x].pc = LoopPc(ctx[x].length, ctx[x].done + DMA_BUFFER_SIZE)]
    /\ UNCHANGED <<slotVars, completions, lock, callFrame>>

(* After the loop: WdfRequestCompleteWithInformation, or the store of the   *)
(* request into the slot.                                                   *)
Finish(x) ==
    /\ ctx[x].pc = "finish"
    /\ LET c == ctx[x] IN
         IF FinishCompletes(c.length, c.done)
           THEN /\ CanComplete(c.req)
                /\ completions' = Completed(c.req, "STATUS_SUCCESS", c.done)
                /\ ctx' = [ctx EXCEPT ![x].pc = "clear"]
                /\ UNCHANGED pending_request
           ELSE /\ pending_request' = [pending_request EXCEPT ![c.ring] = c.req]
                /\ ctx' = [ctx EXCEPT ![x].pc = "park"]
                /\ UNCHANGED completions
    /\ UNCHANGED <<sw_count, pending_remaining_bytes, lock, callFrame>>

(* readRemainingBytes = length - bytesRead; and the return. *)
Park(x) ==
    /\ ctx[x].pc = "park"
    /\ pending_remaining_bytes' =
           [pending_remaining_bytes EXCEPT ![ctx[x].ring] = ParkRemaining(ctx[x].length, ctx[x].done)]
    /\ ctx' = [ctx EXCEPT ![x] = IdleCtx]
    /\ UNCHANGED <<sw_count, pending_request, completions, lock, callFrame>>

(* readRequest = NULL; after the completion. *)
ClearSlot(x) ==
    /\ ctx[x].pc = "clear"
    /\ pending_request' = [pending_request EXCEPT ![ctx[x].ring] = NULL]
    /\ ctx' = [ctx EXCEPT ![x].pc = "clear bytes"]
    /\ UNCHANGED <<sw_count, pending_remaining_bytes, completions, lock, callFrame>>

(* readRemainingBytes = 0; and the return. *)
ClearRemaining(x) ==
    /\ ctx[x].pc = "clear bytes"
    /\ pending_remaining_bytes' = [pending_remaining_bytes EXCEPT ![ctx[x].ring] = 0]
    /\ ctx' = [ctx EXCEPT ![x] = IdleCtx]
    /\ UNCHANGED <<sw_count, pending_request, completions, lock, callFrame>>

(* A step of a call of litepciedrv_ChannelRead / litepciedrv_ChannelWrite,  *)
(* in request context or made by the deferred pass.                         *)
ChannelSteps ==
    \/ \E x \in CtxIds : Unobserved /\ LockForSnapshot(x)
    \/ \E x \in CtxIds : Unobserved /\ LoadHwCount(x)
    \/ \E x \in CtxIds : Unobserved /\ Snapshot(x)
    \/ \E x \in CtxIds : Unobserved /\ Unlock(x)
    \/ \E x \in CtxIds : Unobserved /\ CopyBuffer(x)
    \/ \E x \in CtxIds : Unobserved /\ LoadSwCount(x)
    \/ \E x \in CtxIds : Unobserved /\ CountCopied(x)
    \/ \E x \in CtxIds : Unobserved /\ Finish(x)
    \/ \E x \in CtxIds : Unobserved /\ Park(x)
    \/ \E x \in CtxIds : Unobserved /\ ClearSlot(x)
    \/ \E x \in CtxIds : Unobserved /\ ClearRemaining(x)


(* ---- register accesses of the control calls ------------------------------ *)
(* A register access of a control call: litepciedrv_RegWritel(reg, value),   *)
(* with the ring whose register block (dmachan->base) it addresses; the      *)
(* settle delay and the unmap are logged in the same sequence.               *)
Device == <<0, "device">>
Write(reg, k, value) == [op |-> "write", reg |-> reg, ring |-> k, value |-> value]
Stall == [op |-> "stall", reg |-> "none", ring |-> Device, value |-> 0]
Unmap == [op |-> "unmap", reg |-> "none", ring |-> Device, value |-> 0]

(* The aligned logical addresses of the two common buffers of channel c, as  *)
(* PHYSICAL_ADDRESS (HighPart, LowPart); the low parts stay below 2^31.      *)
CommonBufferAddress(k) ==
    IF k[2] = "reader" THEN [HighPart |-> 0, LowPart |-> (2 * k[1] + 1) * DMA_BUFFER_COUNT * DMA_BUFFER_SIZE]
                       ELSE [HighPart |-> 1, LowPart |-> (2 * k[1] + 2) * DMA_BUFFER_COUNT * DMA_BUFFER_SIZE]

(* reader_addr[j] / writer_addr[j]: QuadPart = base.QuadPart + j * DMA_BUFFER_SIZE *)
buffer_addr(k, j) ==
    [HighPart |-> CommonBufferAddress(k).HighPart,
     LowPart |-> CommonBufferAddress(k).LowPart + j * DMA_BUFFER_SIZE]

(* The address start writes into every descriptor of either ring of channel *)
(* index: dmachan->writer_addr[index].                                       *)
StartAddress(k) == buffer_addr(<<k[1], "writer">>, k[1])

(* The descriptor word: DMA_LAST_DISABLE unless DMA_BUFFER_ALIGNED is        *)
(* defined, | (!(i % DMA_BUFFER_PER_IRQ == 0)) * DMA_IRQ_DISABLE |           *)
(* DMA_BUFFER_SIZE, as its three fields.                                     *)
DescriptorValue(i) ==
    [length |-> DMA_BUFFER_SIZE,
     irq_disable |-> i % DMA_BUFFER_PER_IRQ # 0,
     last_disable |-> ~DMA_BUFFER_ALIGNED]

(* The three writes of one iteration of the descriptor loop. *)
DescriptorWrites(k, i) ==
    <<Write("TABLE_VALUE", k, DescriptorValue(i)),
      Write("TABLE_VALUE_4", k, StartAddress(k).LowPart),
      Write("TABLE_WE", k, StartAddress(k).HighPart)>>

RECURSIVE TableWrites(_, _)
TableWrites(k, i) ==
    IF i >= DMA_BUFFER_COUNT THEN <<>> ELSE DescriptorWrites(k, i) \o TableWrites(k, i + 1)

(* litepcie_dma_writer_start / litepcie_dma_reader_start up to the counters. *)
StartProgramWrites(k) ==
    <<Write("ENABLE", k, 0), Write("TABLE_FLUSH", k, 1), Write("TABLE_LOOP_PROG_N", k, 0)>>
    \o TableWrites(k, 0)
    \o <<Write("TABLE_LOOP_PROG_N", k, 1)>>

(* litepcie_dma_writer_stop / litepcie_dma_reader_stop up to the wait. *)
StopFlushWrites(k) ==
    <<Write("TABLE_LOOP_PROG_N", k, 0), Write("TABLE_FLUSH", k, 1)>>

(* stop from the wait to the counters. *)
StopDisableWrites(k) ==
    <<Stall, Write("ENABLE", k, 0), Write("TABLE_FLUSH", k, 1)>>

(* litepciedrv_DeviceClose: the enable registers of channel c and up. *)
RECURSIVE CloseRingWrites(_)
CloseRingWrites(c) ==
    IF c >= DMA_CHANNELS
      THEN <<>>
      ELSE <<Write("ENABLE", <<c, "writer">>, 0), Write("ENABLE", <<c, "reader">>, 0)>>
           \o CloseRingWrites(c + 1)

(* A teardown that leaves the interrupt enable register as it is. *)
CloseMaskWritesNone == <<>>

(* litepciedrv_RegWritel(litepcie, CSR_PCIE_MSI_ENABLE_ADDR, 0) *)
CloseMaskWrites == <<Write("MSI_ENABLE", Device, {})>>

(* The descriptor table the hardware holds after the accesses of log: a      *)
(* flush empties it, a write to TABLE_WE pushes the descriptor made of the   *)
(* last TABLE_VALUE and TABLE_VALUE_4 writes and the high address word.      *)
RECURSIVE TableAfter(_, _, _, _)
TableAfter(log, table, value, low) ==
    IF log = <<>> THEN table
    ELSE LET a == Head(log) IN
         IF a.op # "write" THEN TableAfter(Tail(log), table, value, low)
         ELSE IF a.reg = "TABLE_FLUSH" THEN TableAfter(Tail(log), <<>>, value, low)
         ELSE IF a.reg = "TABLE_VALUE" THEN TableAfter(Tail(log), table, a.value, low)
         ELSE IF a.reg = "TABLE_VALUE_4" THEN TableAfter(Tail(log), table, value, a.value)
         ELSE IF a.reg = "TABLE_WE"
           THEN TableAfter(Tail(log),
                           Append(table, [length |-> value.length, irq_disable |-> value.irq_disable,
                                          last_disable |-> value.last_disable,
                                          addr |-> [HighPart |-> a.value, LowPart |-> low]]),
                           value, low)
         ELSE TableAfter(Tail(log), table, value, low)

DescriptorTable == TableAfter(mmio, <<>>, DescriptorValue(0), 0)

(* The interrupt enable register after the accesses of log. *)
RECURSIVE MaskAfter(_, _)
MaskAfter(log, mask) ==
    IF log = <<>> THEN mask
    ELSE IF Head(log).op = "write" /\ Head(log).reg = "MSI_ENABLE"
      THEN MaskAfter(Tail(log), Head(log).value)
    ELSE MaskAfter(Tail(log), mask)

(* ---- ring start / stop, teardown, interrupt enable ----------------------- *)
(* One control call runs at a time; mmio is the log of its register          *)
(* accesses and calls the list of the calls made.  The register writes up    *)
(* to the next wait or the next access to the device context are one step;   *)
(* each store to a counter is a step of its own and is made without the      *)
(* ring's lock.                                                              *)
ctlFrame == <<slotVars, irqVars, lock, dpc, ctx, irq, reqVars, envVars>>

CtlIdle == ctl.pc = "idle"
Called(kind, k) == Append(calls, [kind |-> kind, ring |-> k])

(* A step of a control call; it leaves the other observations alone. *)
Logged == Running /\ UNCHANGED <<isr, arrived, probe>>

(* start: RegWritel(ENABLE, 0), the flush, the descriptors, the commit of   *)
(* the table as a loop.                                                     *)
StartProgram(k) ==
    /\ CtlIdle
    /\ ctl' = [pc |-> "start hw_count", ring |-> k]
    /\ calls' = Called("start", k)
    /\ mmio' = StartProgramWrites(k)
    /\ dma_enable' = [dma_enable EXCEPT ![k] = 0]
    /\ UNCHANGED <<hw_count, hw_count_last, sw_count, ctlFrame>>

(* hw_count = 0; *)
ClearHwCount(then) ==
    /\ hw_count' = [hw_count EXCEPT ![ctl.ring] = 0]
    /\ ctl' = [ctl EXCEPT !.pc = then]
    /\ UNCHANGED <<hw_count_last, sw_count, dma_enable, mmio, calls, ctlFrame>>

(* hw_count_last = 0; *)
ClearHwCountLast(then) ==
    /\ hw_count_last' = [hw_count_last EXCEPT ![ctl.ring] = 0]
    /\ ctl' = [ctl EXCEPT !.pc = then]
    /\ UNCHANGED <<hw_count, sw_count, dma_enable, mmio, calls, ctlFrame>>

(* A reset that leaves sw_count as it is. *)
ClearSwCountNot(then) ==
    /\ ctl' = [ctl EXCEPT !.pc = then]
    /\ UNCHANGED <<hw_count, hw_count_last, sw_count, dma_enable, mmio, calls, ctlFrame>>

(* sw_count = 0; *)
ClearSwCount(then) ==
    /\ sw_count' = [sw_count EXCEPT ![ctl.ring] = 0]
    /\ ctl' = [ctl EXCEPT !.pc = then]
    /\ UNCHANGED <<hw_count, hw_count_last, dma_enable, mmio, calls, ctlFrame>>

(* start: the three stores that clear the counters. *)
StartClear ==
    \/ ctl.pc = "start hw_count" /\ ClearHwCount("start hw_count_last")
    \/ ctl.pc = "start hw_count_last" /\ ClearHwCountLast("start sw_count")
    \/ ctl.pc = "start sw_count" /\ ClearSwCount("start enable")

(* start: RegWritel(ENABLE, 1) and the return. *)
StartEnable ==
    /\ ctl.pc = "start enable"
    /\ mmio' = Append(mmio, Write("ENABLE", ctl.ring, 1))
    /\ dma_enable' = [dma_enable EXCEPT ![ctl.ring] = 1]
    /\ ctl' = IdleCtl
    /\ UNCHANGED <<hw_count, hw_count_last, sw_count, calls, ctlFrame>>

(* litepcie_dma_writer_start / litepcie_dma_reader_start on ring k: a step  *)
(* of it; the call is made while fewer than most control calls were made.   *)
litepcie_dma_start(k, most) ==
    \/ Logged /\ Len(calls) < most /\ StartProgram(k)
    \/ Logged /\ ctl.ring = k /\ StartClear
    \/ Logged /\ ctl.ring = k /\ StartEnable

(* stop: RegWritel(TABLE_LOOP_PROG_N, 0); RegWritel(TABLE_FLUSH, 1); the     *)
(* call then waits in KeStallExecutionProcessor with the ring enabled.       *)
StopFlush(k) ==
    /\ CtlIdle
    /\ ctl' = [pc |-> "stop stall", ring |-> k]
    /\ calls' = Called("stop", k)
    /\ mmio' = StopFlushWrites(k)
    /\ UNCHANGED <<ringVars, ctlFrame>>

(* stop: after the wait, RegWritel(ENABLE, 0); RegWritel(TABLE_FLUSH, 1). *)
StopDisable ==
    /\ ctl.pc = "stop stall"
    /\ mmio' = mmio \o StopDisableWrites(ctl.ring)
    /\ dma_enable' = [dma_enable EXCEPT ![ctl.ring] = 0]
    /\ ctl' = [ctl EXCEPT !.pc = "stop hw_count"]
    /\ UNCHANGED <<hw_count, hw_count_last, sw_count, calls, ctlFrame>>

(* stop: the three stores that clear the counters, and the return. *)
StopClear ==
    \/ ctl.pc = "stop hw_count" /\ ClearHwCount("stop hw_count_last")
    \/ ctl.pc = "stop hw_count_last" /\ ClearHwCountLast("stop sw_count")
    \/ ctl.pc = "stop sw_count" /\ ClearSwCount("idle")

(* litepcie_dma_writer_stop / litepcie_dma_reader_stop on ring k: a step of *)
(* it.                                                                      *)
litepcie_dma_stop(k, most) ==
    \/ Logged /\ Len(calls) < most /\ StopFlush(k)
    \/ Logged /\ ctl.ring = k /\ StopDisable
    \/ Logged /\ ctl.ring = k /\ StopClear

(* The framework releases the hardware when its interrupt is disconnected   *)
(* and no request, top half or deferred pass runs.                          *)
NothingRuns ==
    /\ CtlIdle
    /\ irq.pc = "idle"
    /\ dpc.pc = "idle"
    /\ \A x \in CtxIds : ctx[x].pc = "idle"

closeFrame == <<hw_count, hw_count_last, sw_count, slotVars, irqs_requested, irqs_pending,
                dpc_queued, lock, dpc, ctx, irq, reqVars, envVars, isr, arrived, probe>>

(* litepciedrv_DeviceClose: RegWritel(ENABLE, 0) for the writer and the      *)
(* reader of every channel.                                                  *)
CloseDisable ==
    /\ Running
    /\ NothingRuns
    /\ ctl' = [pc |-> "close msi", ring |-> Device]
    /\ calls' = Called("close", Device)
    /\ mmio' = CloseRingWrites(0)
    /\ dma_enable' = [k \in Rings |-> 0]
    /\ UNCHANGED <<msi_enable, closeFrame>>

(* litepciedrv_DeviceClose: RegWritel(CSR_PCIE_MSI_ENABLE_ADDR, 0) *)
CloseMask ==
    /\ ctl.pc = "close msi"
    /\ ctl' = [ctl EXCEPT !.pc = "close unmap"]
    /\ mmio' = mmio \o CloseMaskWrites
    /\ msi_enable' = MaskAfter(CloseMaskWrites, msi_enable)
    /\ UNCHANGED <<dma_enable, calls, closeFrame>>

(* litepciedrv_DeviceClose: MmUnmapIoSpace and the return.  Nothing runs     *)
(* afterwards.                                                               *)
CloseUnmap ==
    /\ ctl.pc = "close unmap"
    /\ ctl' = [ctl EXCEPT !.pc = "closed"]
    /\ mmio' = Append(mmio, Unmap)
    /\ UNCHANGED <<dma_enable, msi_enable, calls, closeFrame>>

(* litepciedrv_DeviceClose: a step of it. *)
litepciedrv_DeviceClose ==
    \/ CloseDisable
    \/ CloseMask
    \/ CloseUnmap

(* RegWritel(MSI_ENABLE, irqs_requested); RegWritel(MSI_CLEAR, 1 << interrupt) *)
EnableWrites(requested, interrupt) ==
    <<Write("MSI_ENABLE", Device, requested), Write("MSI_CLEAR", Device, {interrupt})>>

maskFrame == <<ringVars, slotVars, irqs_pending, dpc_queued, lock, dpc, ctx, irq, reqVars, envVars>>

(* dev->irqs_requested |= (1 << interrupt) *)
EnableRequest(k) ==
    /\ CtlIdle
    /\ ctl' = [pc |-> "enable write", ring |-> k]
    /\ calls' = Called("enable", k)
    /\ mmio' = <<>>
    /\ irqs_requested' = irqs_requested \cup {interrupt_bit(k)}
    /\ UNCHANGED <<msi_enable, maskFrame>>

(* The two register writes of litepcie_enable_interrupt, and the return. *)
EnableWrite ==
    /\ ctl.pc = "enable write"
    /\ ctl' = IdleCtl
    /\ mmio' = EnableWrites(irqs_requested, interrupt_bit(ctl.ring))
    /\ msi_enable' = irqs_requested
    /\ UNCHANGED <<irqs_requested, calls, maskFrame>>

(* litepcie_enable_interrupt for the interrupt of ring k: a step of it. *)
litepcie_enable_interrupt(k, most) ==
    \/ Logged /\ Len(calls) < most /\ EnableRequest(k)
    \/ Logged /\ ctl.ring = k /\ EnableWrite

(* dev->irqs_requested &= ~(1 << interrupt) *)
DisableRequest(k) ==
    /\ CtlIdle
    /\ ctl' = [pc |-> "disable write", ring |-> k]
    /\ calls' = Called("disable", k)
    /\ mmio' = <<>>
    /\ irqs_requested' = irqs_requested \ {interrupt_bit(k)}
    /\ UNCHANGED <<msi_enable, maskFrame>>

(* The register write of litepcie_disable_interrupt, and the return. *)
DisableWrite ==
    /\ ctl.pc = "disable write"
    /\ ctl' = IdleCtl
    /\ mmio' = <<Write("MSI_ENABLE", Device, irqs_requested)>>
    /\ msi_enable' = irqs_requested
    /\ UNCHANGED <<irqs_requested, calls, maskFrame>>

(* litepcie_disable_interrupt for the interrupt of ring k: a step of it. *)
litepcie_disable_interrupt(k, most) ==
    \/ Logged /\ Len(calls) < most /\ DisableRequest(k)
    \/ Logged /\ ctl.ring = k /\ DisableWrite

(* RegWritel(MSI_ENABLE, irqs_requested); RegWritel(MSI_CLEAR, irqs_requested) *)
litepcie_EvtIntEnable ==
    /\ CtlIdle
    /\ calls' = Called("connect", Device)
    /\ msi_enable' = irqs_requested
    /\ mmio' = <<Write("MSI_ENABLE", Device, irqs_requested), Write("MSI_CLEAR", Device, irqs_requested)>>
    /\ UNCHANGED <<irqs_requested, ctl, maskFrame>>

(* RegWritel(MSI_ENABLE, 0) *)
litepcie_EvtIntDisable ==
    /\ CtlIdle
    /\ calls' = Called("disconnect", Device)
    /\ msi_enable' = {}
    /\ mmio' = <<Write("MSI_ENABLE", Device, {})>>
    /\ UNCHANGED <<irqs_requested, ctl, maskFrame>>


(* ---- interrupts ---------------------------------------------------------- *)
isrFrame == <<ringVars, slotVars, irqs_requested, msi_enable, lock, dpc, ctx, ctl, reqVars, envVars>>

(* The interrupt bits of the rings. *)
RingBits == {interrupt_bit(k) : k \in Rings}

(* Top half: irqVec = RegReadl(CSR_PCIE_MSI_VECTOR); if it is zero the top  *)
(* half returns FALSE.  irqVec is whatever the register holds.              *)
IsrRead(irqVec) ==
    /\ irq.pc = "idle"
    /\ irq' = IF irqVec # {} THEN [pc |-> "load", irqVec |-> irqVec, val |-> {}] ELSE IdleIrq
    /\ UNCHANGED <<irqs_pending, dpc_queued, isrFrame>>

(* dev->irqs_pending |= irqVec: the load. *)
IsrLoad ==
    /\ irq.pc = "load"
    /\ irq' = [irq EXCEPT !.val = irqs_pending, !.pc = "store"]
    /\ UNCHANGED <<irqs_pending, dpc_queued, isrFrame>>

(* dev->irqs_pending |= irqVec: the store. *)
IsrStore ==
    /\ irq.pc = "store"
    /\ irqs_pending' = irq.val \cup irq.irqVec
    /\ irq' = [irq EXCEPT !.val = {}, !.pc = "queue"]
    /\ UNCHANGED <<dpc_queued, isrFrame>>

(* RegWritel(CSR_PCIE_MSI_CLEAR, irqVec), which acts on the hardware's       *)
(* latched sources only; WdfInterruptQueueDpcForIsr; return TRUE.            *)
IsrQueue ==
    /\ irq.pc = "queue"
    /\ dpc_queued' = TRUE
    /\ irq' = IdleIrq
    /\ UNCHANGED <<irqs_pending, isrFrame>>

(* litepcie_EvtIsr: a step of it, with the vectors the register may hold    *)
(* on entry; the top half runs while fewer than most interrupts were        *)
(* delivered.                                                               *)
litepcie_EvtIsr(vectors, most) ==
    \/ \E irqVec \in vectors :
           /\ Running
           /\ isr.runs < most
           /\ IsrRead(irqVec)
           /\ isr' = [isr EXCEPT !.runs = @ + 1]
           /\ UNCHANGED <<mmio, calls, arrived, probe>>
    \/ Unobserved /\ IsrLoad
    \/ Unobserved /\ IsrStore
    \/ Unobserved /\ IsrQueue

(* ---- litepcie_EvtDpc ----------------------------------------------------- *)
(* The loop visits, for i = 0 .. channels-1, the reader block and then the  *)
(* writer block of channel i: position 2i and 2i+1.                         *)
DpcPositions == 0 .. (2 * DMA_CHANNELS - 1)
PosRing(p) == <<p \div 2, IF p % 2 = 0 THEN "reader" ELSE "writer">>
DpcRing == PosRing(dpc.pos)

(* if (irq_vector & (1 << interrupt)) *)
DpcTakes(p, vec) == interrupt_bit(PosRing(p)) \in vec

(* The first block at or after position p whose interrupt bit is set in the *)
(* snapshot, or the end of the loop.                                        *)
DpcSeek(p, vec) ==
    LET todo == {q \in DpcPositions : q >= p /\ DpcTakes(q, vec)}
    IN  IF todo = {} THEN [pc |-> "finish", pos |-> 0]
        ELSE [pc |-> "status", pos |-> CHOOSE q \in todo : \A z \in todo : q <= z]

(* clear_mask |= (1 << interrupt), and on to the next block. *)
DpcMove(to, mask) ==
    dpc' = [dpc EXCEPT !.pos = to.pos, !.pc = to.pc, !.clear_mask = mask,
                       !.loop_status = NoStatus, !.val = 0, !.last = 0, !.request = NULL]

(* What no step of the deferred pass changes. *)
dpcFrame == <<sw_count, dma_enable, irqs_requested, msi_enable, irq, ctl, reqs, envVars>>

(* The framework runs a queued pass when none is running.                   *)
(* irq_enable = RegReadl(CSR_PCIE_MSI_ENABLE)                               *)
DpcStart ==
    /\ dpc_queued
    /\ dpc.pc = "idle"
    /\ dpc_queued' = FALSE
    /\ dpc' = [IdleDpc EXCEPT !.pc = "vector", !.irq_enable = msi_enable]
    /\ UNCHANGED <<hw_count, hw_count_last, slotVars, irqs_pending, lock, ctx, completions, dpcFrame>>

(* irq_vector = dev->irqs_pending & irq_enable *)
DpcVector ==
    /\ dpc.pc = "vector"
    /\ LET vec == irqs_pending \cap dpc.irq_enable
           to == DpcSeek(0, vec)
       IN  dpc' = [dpc EXCEPT !.pc = to.pc, !.pos = to.pos, !.irq_vector = vec, !.irq_enable = {}]
    /\ UNCHANGED <<hw_count, hw_count_last, slotVars, irqs_pending, dpc_queued, lock, ctx,
                   completions, dpcFrame>>

(* loop_status = RegReadl(TABLE_LOOP_STATUS) *)
DpcStatus(loop_status) ==
    /\ dpc.pc = "status"
    /\ dpc' = [dpc EXCEPT !.loop_status = loop_status, !.pc = "lock"]
    /\ UNCHANGED <<hw_count, hw_count_last, slotVars, irqs_pending, dpc_queued, lock, ctx,
                   completions, dpcFrame>>

(* WdfSpinLockAcquire(readerLock / writerLock) *)
DpcLock ==
    /\ dpc.pc = "lock"
    /\ lock[DpcRing] = Free
    /\ lock' = [lock EXCEPT ![DpcRing] = DpcCtx]
    /\ dpc' = [dpc EXCEPT !.pc = "mask"]
    /\ UNCHANGED <<hw_count, hw_count_last, slotVars, irqs_pending, dpc_queued, ctx,
                   completions, dpcFrame>>

(* The position after a load of hw_count. *)
AfterLoad(pc) ==
    CASE pc = "mask" -> "mask store"
      [] pc = "or" -> "or store"
      [] pc = "wrap" -> "wrap store"
      [] pc = "last" -> "last store"

(* The load of hw_count that begins hw_count &= ..., hw_count |= ...,       *)
(* hw_count += ... and hw_count_last = hw_count.                            *)
DpcLoadHwCount ==
    /\ dpc.pc \in {"mask", "or", "wrap", "last"}
    /\ dpc' = [dpc EXCEPT !.val = hw_count[DpcRing], !.pc = AfterLoad(dpc.pc)]
    /\ UNCHANGED <<hw_count, hw_count_last, slotVars, irqs_pending, dpc_queued, lock, ctx,
                   completions, dpcFrame>>

(* The store of a value into hw_count of the ring of the pass. *)
DpcStoreHwCount(value, then) ==
    /\ hw_count' = [hw_count EXCEPT ![DpcRing] = value]
    /\ dpc' = [dpc EXCEPT !.val = 0, !.last = 0, !.pc = then]
    /\ UNCHANGED <<hw_count_last, slotVars, irqs_pending, dpc_queued, lock, ctx,
                   completions, dpcFrame>>

(* hw_count &= mask: the store. *)
DpcMaskStore ==
    /\ dpc.pc = "mask store"
    /\ DpcStoreHwCount(MaskCount(dpc.val, Depth), "or")

(* hw_count |= (loop_status >> 16) * DMA_BUFFER_COUNT + (loop_status &       *)
(* 0xffff): the store.                                                       *)
DpcOrStore ==
    /\ dpc.pc = "or store"
    /\ DpcStoreHwCount(BitOr(dpc.val, LoopStatusCount(dpc.loop_status, Depth)),
                       "compare")

(* if (hw_count_last > hw_count): the load of hw_count_last. *)
DpcCompareLast ==
    /\ dpc.pc = "compare"
    /\ dpc' = [dpc EXCEPT !.last = hw_count_last[DpcRing], !.pc = "compare hw"]
    /\ UNCHANGED <<hw_count, hw_count_last, slotVars, irqs_pending, dpc_queued, lock, ctx,
                   completions, dpcFrame>>

(* if (hw_count_last > hw_count): the load of hw_count and the test. *)
DpcCompare ==
    /\ dpc.pc = "compare hw"
    /\ dpc' = [dpc EXCEPT !.last = 0,
                          !.pc = IF WrapNeeded(hw_count[DpcRing], dpc.last) THEN "wrap" ELSE "last"]
    /\ UNCHANGED <<hw_count, hw_count_last, slotVars, irqs_pending, dpc_queued, lock, ctx,
                   completions, dpcFrame>>

(* hw_count += (INT64)(1UL << (leftmost_bit(DMA_BUFFER_COUNT) + 16)): the    *)
(* store.                                                                    *)
DpcWrapStore ==
    /\ dpc.pc = "wrap store"
    /\ DpcStoreHwCount(dpc.val + WrapIncrement(Depth), "last")

(* hw_count_last = hw_count: the store. *)
DpcLastStore ==
    /\ dpc.pc = "last store"
    /\ hw_count_last' = [hw_count_last EXCEPT ![DpcRing] = dpc.val]
    /\ dpc' = [dpc EXCEPT !.val = 0, !.pc = "unlock"]
    /\ UNCHANGED <<hw_count, slotVars, irqs_pending, dpc_queued, lock, ctx, completions, dpcFrame>>

(* WdfSpinLockRelease *)
DpcUnlock ==
    /\ dpc.pc = "unlock"
    /\ lock' = [lock EXCEPT ![DpcRing] = Free]
    /\ dpc' = [dpc EXCEPT !.loop_status = NoStatus, !.pc = "test"]
    /\ UNCHANGED <<hw_count, hw_count_last, slotVars, irqs_pending, dpc_queued, ctx,
                   completions, dpcFrame>>

(* if (request != NULL): the load of writeRequest / readRequest and the     *)
(* test; else clear_mask |= (1 << interrupt).                               *)
DpcTest ==
    /\ dpc.pc = "test"
    /\ IF pending_request[DpcRing] # NULL
         THEN dpc' = [dpc EXCEPT !.pc = "request"]
         ELSE DpcMove(DpcSeek(dpc.pos + 1, dpc.irq_vector),
                      dpc.clear_mask \cup {interrupt_bit(DpcRing)})
    /\ UNCHANGED <<hw_count, hw_count_last, slotVars, irqs_pending, dpc_queued, lock, ctx,
                   completions, dpcFrame>>

(* The load of writeRequest / readRequest for the call. *)
DpcLoadRequest ==
    /\ dpc.pc = "request"
    /\ dpc' = [dpc EXCEPT !.request = pending_request[DpcRing], !.pc = "length"]
    /\ UNCHANGED <<hw_count, hw_count_last, slotVars, irqs_pending, dpc_queued, lock, ctx,
                   completions, dpcFrame>>

(* The load of writeRemainingBytes / readRemainingBytes, and the entry of   *)
(* ChannelWrite / ChannelRead(pChan, request, remaining).  With a NULL      *)
(* request the framework stops the system.                                  *)
DpcRetry(ok) ==
    /\ dpc.pc = "length"
    /\ LET k == DpcRing
           r == dpc.request
       IN  IF r = NULL
             THEN /\ dpc' = [dpc EXCEPT !.pc = "bugcheck"]
                  /\ UNCHANGED <<ctx, completions>>
             ELSE /\ ok \/ CanComplete(r)
                  /\ ctx' = [ctx EXCEPT ![DpcCtx] = EnterCall(k, r, pending_remaining_bytes[k], ok)]
                  /\ completions' = EnterCompletions(r, ok)
                  /\ dpc' = [dpc EXCEPT !.request = NULL, !.pc = "call"]
    /\ UNCHANGED <<hw_count, hw_count_last, slotVars, irqs_pending, dpc_queued, lock, dpcFrame>>

(* The call returns: clear_mask |= (1 << interrupt) *)
DpcReturn ==
    /\ dpc.pc = "call"
    /\ ctx[DpcCtx].pc = "idle"
    /\ DpcMove(DpcSeek(dpc.pos + 1, dpc.irq_vector),
               dpc.clear_mask \cup {interrupt_bit(DpcRing)})
    /\ UNCHANGED <<hw_count, hw_count_last, slotVars, irqs_pending, dpc_queued, lock, ctx,
                   completions, dpcFrame>>

(* dev->irqs_pending &= ~clear_mask: the load. *)
DpcFinishLoad ==
    /\ dpc.pc = "finish"
    /\ dpc' = [dpc EXCEPT !.pending = irqs_pending, !.pc = "finish store"]
    /\ UNCHANGED <<hw_count, hw_count_last, slotVars, irqs_pending, dpc_queued, lock, ctx,
                   completions, dpcFrame>>

(* dev->irqs_pending &= ~clear_mask: the store, and the return. *)
DpcFinish ==
    /\ dpc.pc = "finish store"
    /\ irqs_pending' = dpc.pending \ dpc.clear_mask
    /\ dpc' = IdleDpc
    /\ UNCHANGED <<hw_count, hw_count_last, slotVars, dpc_queued, lock, ctx, completions, dpcFrame>>


(* The statements of the locked section of the deferred pass. *)
DpcLocked ==
    \/ Unobserved /\ DpcLoadHwCount
    \/ Unobserved /\ DpcMaskStore
    \/ Unobserved /\ DpcOrStore
    \/ Unobserved /\ DpcCompareLast
    \/ Unobserved /\ DpcCompare
    \/ Unobserved /\ DpcWrapStore
    \/ Unobserved /\ DpcLastStore
    \/ Unobserved /\ DpcUnlock

(* The retry of the parked request, with the results the retrieve of the    *)
(* memory handle may have.                                                  *)
DpcCall(retrieves) ==
    \/ Unobserved /\ DpcLoadRequest
    \/ \E ok \in retrieves : Unobserved /\ DpcRetry(ok)
    \/ Unobserved /\ DpcReturn

(* The end of a block and the end of the pass. *)
DpcEnds ==
    \/ Unobserved /\ DpcTest
    \/ Unobserved /\ DpcFinishLoad
    \/ Unobserved /\ DpcFinish

(* litepcie_EvtDpc: a step of it, outside the call it makes, with the       *)
(* loop-status values the hardware may show.                                *)
litepcie_EvtDpc(statuses, retrieves) ==
    \/ Unobserved /\ DpcStart
    \/ Unobserved /\ DpcVector
    \/ \E s \in statuses : Unobserved /\ DpcStatus(s)
    \/ Unobserved /\ DpcLock
    \/ DpcLocked
    \/ DpcCall(retrieves)
    \/ DpcEnds

(* ---- next-state relation -------------------------------------------------- *)
(* Requests, one control call and the interrupt path race on one ring.       *)
UserBits == {interrupt_bit(k) : k \in user_rings}

(* Request lengths and loop-status values of the specifications that race a  *)
(* request with other calls: an empty request or one block, the hardware at  *)
(* slot 0 or 1 of its first loop.                                            *)
RaceLengths == {0, DMA_BUFFER_SIZE}
BlockLengths == {DMA_BUFFER_SIZE}
PassStatus == [loops : {0}, index : {0, 1}]

Next ==
    \/ \E k \in user_rings, n \in RaceLengths, ok \in BOOLEAN : Unobserved /\ Submit(k, n, ok)
    \/ ChannelSteps
    \/ \E k \in user_rings : litepcie_dma_start(k, MaxRaceCalls)
    \/ \E k \in user_rings : litepcie_dma_stop(k, MaxRaceCalls)
    \/ litepcie_EvtIsr(SUBSET UserBits, MaxRaceInterrupts)
    \/ litepcie_EvtDpc(PassStatus, BOOLEAN)

Spec == Init /\ [][Next]_vars

(* ---- requests and the interrupt path, no control call ---------------------- *)
NextRequests ==
    \/ \E k \in user_rings, n \in Lengths, ok \in BOOLEAN : Unobserved /\ Submit(k, n, ok)
    \/ ChannelSteps
    \/ litepcie_EvtIsr(SUBSET UserBits, MaxRaceInterrupts)
    \/ litepcie_EvtDpc(RawStatus, BOOLEAN)

SpecRequests == InitRequests /\ [][NextRequests]_vars

(* ---- the reconcile on its own ---------------------------------------------- *)
(* Ring depths: the configured one and the spec's example depth. *)
Depths == {DMA_BUFFER_COUNT, 1024}

(* Raw loop-status values of a ring of depth n: loop counts at both ends of  *)
(* the 16-bit field, indexes up to the last slot.                            *)
ProbeStatus(n) == [loops : {0, 2, LoopStatusIndexMask}, index : {i \in {0, 5, 10, n - 1} : i < n}]

InitReconcile ==
    /\ InitDevice
    /\ InitUser
    /\ attach = NotAttached
    /\ mmio = <<>>
    /\ calls = <<>>
    /\ isr = NoIsr
    /\ arrived = {}
    /\ \E n \in Depths : probe = [NoProbe EXCEPT !.depth = n]

(* An interrupt of the ring is delivered, at most MaxReconcileSteps times. *)
ProbeInterrupt ==
    /\ isr.runs < MaxReconcileSteps
    /\ IsrRead(UserBits)
    /\ isr' = [isr EXCEPT !.runs = @ + 1]
    /\ UNCHANGED <<mmio, calls, arrived, probe>>

(* The deferred pass reads the loop status. *)
ProbeRead(loop_status) ==
    /\ DpcStatus(loop_status)
    /\ probe' = [probe EXCEPT !.trace = Append(@, loop_status)]
    /\ UNCHANGED <<mmio, calls, isr, arrived>>

(* The deferred pass takes the lock: the counters the reconcile starts from. *)
ProbeLock ==
    /\ DpcLock
    /\ probe' = [probe EXCEPT !.hw = hw_count[DpcRing], !.last = hw_count_last[DpcRing]]
    /\ UNCHANGED <<mmio, calls, isr, arrived>>

(* No request is parked and no start or stop is made. *)
NextReconcile ==
    \/ ProbeInterrupt
    \/ Unobserved /\ IsrLoad
    \/ Unobserved /\ IsrStore
    \/ Unobserved /\ IsrQueue
    \/ Unobserved /\ DpcStart
    \/ Unobserved /\ DpcVector
    \/ \E s \in ProbeStatus(Depth) : ProbeRead(s)
    \/ ProbeLock
    \/ DpcLocked
    \/ DpcEnds

SpecReconcile == InitReconcile /\ [][NextReconcile]_vars

(* ---- one request on a started ring ----------------------------------------- *)
(* The ring is started once, one request is submitted and its memory handle  *)
(* is always retrieved; the ring is not stopped or restarted afterwards.     *)
NothingSubmitted == \A r \in Requests : ~reqs[r].used

StartOnce(k) == dma_enable[k] = 0 /\ NothingSubmitted /\ litepcie_dma_start(k, 1)

SubmitOnce(k, length) == dma_enable[k] = 1 /\ NothingSubmitted /\ Unobserved /\ Submit(k, length, TRUE)

(* The hardware may be up to a ring ahead, so that the overflow test can     *)
(* succeed.                                                                  *)
SteadyStatus == [loops : {0}, index : {0, MaxRawIndex, DMA_BUFFER_COUNT - 1}]
SteadyLengths == {DMA_BUFFER_SIZE, MaxBlocks * DMA_BUFFER_SIZE}

NextSteady ==
    \/ \E k \in user_rings : StartOnce(k)
    \/ \E k \in user_rings, n \in SteadyLengths : SubmitOnce(k, n)
    \/ ChannelSteps
    \/ litepcie_EvtIsr({UserBits}, MaxRaceInterrupts)
    \/ litepcie_EvtDpc(SteadyStatus, {TRUE})

SpecSteady == Init /\ [][NextSteady]_vars

(* ---- one request under fair scheduling ------------------------------------- *)
LiveLengths == {DMA_BUFFER_SIZE - 1, DMA_BUFFER_SIZE}
LiveStatus == [loops : {0}, index : {1}]

(* The top half runs for an interrupt of the driven ring, any number of     *)
(* times.                                                                   *)
InterruptDelivered ==
    \/ Unobserved /\ IsrRead(UserBits)
    \/ Unobserved /\ IsrLoad
    \/ Unobserved /\ IsrStore
    \/ Unobserved /\ IsrQueue

(* The deferred pass reads a loop status that puts the reconciled count      *)
(* ahead of sw_count: the hardware has advanced past what the software       *)
(* consumed.                                                                 *)
HardwareAhead ==
    \E s \in LiveStatus :
        /\ LoopStatusCount(s, Depth) > sw_count[DpcRing]
        /\ Unobserved
        /\ DpcStatus(s)

(* A step of the deferred pass after the loop status was read. *)
DpcRuns ==
    \/ Unobserved /\ DpcStart
    \/ Unobserved /\ DpcVector
    \/ Unobserved /\ DpcLock
    \/ DpcLocked
    \/ DpcCall({TRUE})
    \/ DpcEnds

NextLive ==
    \/ \E k \in user_rings : StartOnce(k)
    \/ \E k \in user_rings, n \in LiveLengths : SubmitOnce(k, n)
    \/ ChannelSteps
    \/ InterruptDelivered
    \/ \E s \in LiveStatus : Unobserved /\ DpcStatus(s)
    \/ DpcRuns

(* Every call, every start and every deferred pass runs to its end;          *)
(* interrupts keep being delivered; the hardware keeps being ahead when the  *)
(* pass reads the loop status.                                               *)
Fairness ==
    /\ WF_vars(ChannelSteps)
    /\ WF_vars(\E k \in user_rings : StartOnce(k))
    /\ WF_vars(DpcRuns)
    /\ WF_vars(InterruptDelivered)
    /\ SF_vars(HardwareAhead)

SpecLive == Init /\ [][NextLive]_vars /\ Fairness


(* ---- litepciedrv_DeviceOpen ------------------------------------------------ *)
(* A descriptor of the translated resource list, by its Type; "Null" is a    *)
(* NULL descriptor returned by WdfCmResourceListGetDescriptor.               *)
ResourceKinds == {"Memory", "Interrupt", "Port", "Null"}
ResourceLists == UNION {[1 .. n -> ResourceKinds] : n \in 0 .. MaxResources}

(* What the environment answers during attach: the resource list, whether   *)
(* MmMapIoSpace maps BAR0, whether an access through an invalid pointer      *)
(* faults (and the Type such a read yields when it does not), the status of  *)
(* WdfInterruptCreate, whether the framework stops the system when it is     *)
(* handed a NULL interrupt handle or returns from the call, the status of    *)
(* WdfDmaEnablerCreate, WdfDmaTransactionCreate and the two                  *)
(* WdfCommonBufferCreate calls, and the aligned logical address of the read  *)
(* and of the write common buffer.                                           *)
OpenInputs ==
    [resources : ResourceLists, map_ok : BOOLEAN,
     fault : BOOLEAN, null_type : {"Interrupt", "Port"},
     intr_ok : BOOLEAN, null_handle_stops : BOOLEAN,
     enabler_ok : BOOLEAN, transaction_ok : BOOLEAN,
     rd_buffer_ok : BOOLEAN, wr_buffer_ok : BOOLEAN,
     rd_phys : {0, DMA_BUFFER_SIZE}, wr_phys : {0, DMA_BUFFER_SIZE}]

(* The NTSTATUS a failing framework call hands back. *)
ApiFailure == "STATUS_INSUFFICIENT_RESOURCES"

(* for (j = 0; j < 256; j++) versionStr[j] = RegReadl(identifier + 4 j) *)
IdentifierWords == 256

HasKind(res, kind) == \E i \in 1 .. Len(res) : res[i] = kind

(* The resource loop stops at the first descriptor that is NULL or a memory  *)
(* resource; 0 when it runs off the end of the list.                         *)
FirstStop(res) ==
    LET stops == {i \in 1 .. Len(res) : res[i] \in {"Null", "Memory"}}
    IN  IF stops = {} THEN 0 ELSE CHOOSE i \in stops : \A j \in stops : i <= j

(* bar0_addr after the resource loop: "abort" when the loop returned         *)
(* STATUS_DEVICE_CONFIGURATION_ERROR, "unmapped" when no memory resource was *)
(* found and bar0_addr is still the NULL of the memset.                      *)
Bar0(in) ==
    LET i == FirstStop(in.resources)
    IN  IF i = 0 THEN "unmapped"
        ELSE IF in.resources[i] = "Null" THEN "abort"
        ELSE IF in.map_ok THEN "mapped" ELSE "abort"

(* desc->Type as the loops of litepciedrv_SetupInterrupts read it, without   *)
(* a NULL test: a NULL descriptor yields whatever the invalid read returns.  *)
DescriptorTypes(in) ==
    [i \in 1 .. Len(in.resources) |->
        IF in.resources[i] = "Null" THEN in.null_type ELSE in.resources[i]]

(* if (desc->Type == CmResourceTypeInterrupt) holds for some descriptor, so  *)
(* WdfInterruptCreate is called (once: the loop breaks after it).            *)
InterruptFound(in) == HasKind(DescriptorTypes(in), "Interrupt")

(* WdfInterruptGetInfo(dev->intr, &intInfo) follows WdfInterruptCreate       *)
(* whatever its status: the handle it is given is the interrupt object, or   *)
(* the NULL of the memset when the create failed.                            *)
WdfInterruptGetInfo(in) ==
    IF ~InterruptFound(in) THEN "not called"
    ELSE IF in.intr_ok THEN "interrupt object" ELSE "NULL"

(* litepciedrv_SetupInterrupts: both loops read desc->Type of every          *)
(* descriptor without a NULL test; the first interrupt resource gets         *)
(* WdfInterruptCreate and then WdfInterruptGetInfo, and the status of the    *)
(* create is returned; when the create failed, WdfInterruptGetInfo is called *)
(* with a NULL handle, on which the framework stops the system or returns;   *)
(* STATUS_SUCCESS when the list holds no interrupt resource.                 *)
litepciedrv_SetupInterrupts(in) ==
    IF HasKind(in.resources, "Null") /\ in.fault THEN "fault"
    ELSE IF WdfInterruptGetInfo(in) = "not called" THEN "STATUS_SUCCESS"
    ELSE IF WdfInterruptGetInfo(in) = "interrupt object" THEN "STATUS_SUCCESS"
    ELSE IF in.null_handle_stops THEN "stop"
    ELSE ApiFailure

(* dev->intr after a successful litepciedrv_SetupInterrupts: the interrupt   *)
(* object WdfInterruptCreate made, or none when the list held no interrupt   *)
(* resource and the call was never made.                                     *)
InterruptObject(in) == IF InterruptFound(in) THEN "created" ELSE "none"

AttachEnds(state, status, accesses, interrupts, buffers) ==
    [state |-> state, status |-> status, reg_accesses |-> accesses,
     interrupts |-> interrupts, buffers |-> buffers]

(* After the interrupt setup: the DMA enabler, the transaction, the common   *)
(* buffers and the check of every slot's physical address.                   *)
AllocateBuffers(in, accesses) ==
    IF ~in.enabler_ok \/ ~in.transaction_ok
      THEN AttachEnds("returned", ApiFailure, accesses, InterruptObject(in), "not reached")
    ELSE IF ~in.rd_buffer_ok \/ ~in.wr_buffer_ok
      THEN AttachEnds("returned", ApiFailure, accesses, InterruptObject(in), "failed")
    ELSE IF \E j \in 0 .. (DMA_BUFFER_COUNT - 1) :
               in.rd_phys + j * DMA_BUFFER_SIZE = 0 \/ in.wr_phys + j * DMA_BUFFER_SIZE = 0
      THEN AttachEnds("returned", "STATUS_NO_MEMORY", accesses, InterruptObject(in), "zero address")
    ELSE AttachEnds("returned", "STATUS_SUCCESS", accesses, InterruptObject(in), "ok")

(* The outcome of litepciedrv_DeviceOpen.  With bar0_addr NULL the core      *)
(* reset write goes through an invalid pointer: it faults, or the attach     *)
(* goes on.  When the interrupt setup does not return, neither does the      *)
(* attach.                                                                   *)
DeviceOpenOutcome(in) ==
    IF Bar0(in) = "abort"
      THEN AttachEnds("returned", "STATUS_DEVICE_CONFIGURATION_ERROR", 0, "not reached", "not reached")
    ELSE IF Bar0(in) = "unmapped" /\ in.fault
      THEN AttachEnds("crashed", "none", 1, "not reached", "not reached")
    ELSE IF litepciedrv_SetupInterrupts(in) = "fault"
      THEN AttachEnds("crashed", "none", 1 + IdentifierWords, "not reached", "not reached")
    ELSE IF litepciedrv_SetupInterrupts(in) = "stop"
      THEN AttachEnds("crashed", "none", 1 + IdentifierWords, "failed", "not reached")
    ELSE IF litepciedrv_SetupInterrupts(in) # "STATUS_SUCCESS"
      THEN AttachEnds("returned", "STATUS_DEVICE_CONFIGURATION_ERROR", 1 + IdentifierWords,
                      "failed", "not reached")
    ELSE AllocateBuffers(in, 1 + IdentifierWords)

(* The handle the attach passed to WdfInterruptGetInfo, when it got that far. *)
GetInfoHandle(in) ==
    IF DeviceOpenOutcome(in).interrupts \in {"failed", "created"}
      THEN WdfInterruptGetInfo(in) ELSE "not called"

(* Before attach: nothing is enabled and no application runs. *)
InitOpen ==
    /\ InitDevice
    /\ user_rings = {}
    /\ irqs_requested = {}
    /\ msi_enable = {}
    /\ attach = NotAttached
    /\ InitObserved

(* The attach: the device context is memset to zero, then the steps above.   *)
litepciedrv_DeviceOpen(in) ==
    /\ attach' = [inputs |-> in, bar0 |-> Bar0(in), get_info |-> GetInfoHandle(in)]
                  @@ DeviceOpenOutcome(in)
    /\ hw_count' = [k \in Rings |-> 0]
    /\ hw_count_last' = [k \in Rings |-> 0]
    /\ sw_count' = [k \in Rings |-> 0]
    /\ pending_request' = [k \in Rings |-> NULL]
    /\ pending_remaining_bytes' = [k \in Rings |-> 0]
    /\ irqs_requested' = {}
    /\ irqs_pending' = {}
    /\ UNCHANGED <<dma_enable, msi_enable, dpc_queued, runVars, reqVars, user_rings>>

(* The framework attaches the device once. *)
NextOpen ==
    /\ attach = NotAttached
    /\ \E in \in OpenInputs : litepciedrv_DeviceOpen(in)
    /\ UNCHANGED obsVars

SpecOpen == InitOpen /\ [][NextOpen]_vars


(* ---- ring start / stop and teardown with a request in flight --------------- *)

NextControl ==
    \/ \E k \in user_rings : litepcie_dma_start(k, MaxControlCalls)
    \/ \E k \in user_rings : litepcie_dma_stop(k, MaxControlCalls)
    \/ litepciedrv_DeviceClose
    \/ \E k \in user_rings, n \in BlockLengths :
           NothingSubmitted /\ Unobserved /\ Submit(k, n, TRUE)
    \/ ChannelSteps
    \/ litepcie_EvtIsr({UserBits}, MaxRaceInterrupts)
    \/ litepcie_EvtDpc(PassStatus, {TRUE})

SpecControl == Init /\ [][NextControl]_vars

(* ---- the interrupt path with its outputs ------------------------------------ *)
(* Both directions of channel 0 have their interrupt enabled.  The top       *)
(* half is recorded with the vector it read, the value it returned and its   *)
(* writes to CSR_PCIE_MSI_CLEAR; arrived collects the bits it stored into    *)
(* irqs_pending after the running pass took its snapshot.                    *)
InitIrq ==
    /\ InitDevice
    /\ InitObserved
    /\ user_rings = ChannelRings(0)
    /\ irqs_requested = {interrupt_bit(k) : k \in ChannelRings(0)}
    /\ msi_enable = {interrupt_bit(k) : k \in ChannelRings(0)}
    /\ attach = NotAttached

(* A top half that reports every interrupt as handled. *)
IsrReturnAlways(irqVec) == TRUE

(* return TRUE / return FALSE *)
IsrReturn(irqVec) == irqVec # {}

(* litepciedrv_RegWritel(dev, CSR_PCIE_MSI_CLEAR_ADDR, irqVec) *)
IsrClearWrites(irqVec) ==
    IF irqVec # {} THEN <<Write("MSI_CLEAR", Device, irqVec)>> ELSE <<>>

(* The running pass has taken its snapshot of irqs_pending. *)
DpcSnapshotTaken == dpc.pc \notin {"idle", "vector"}

(* The top half reads the vector; with a zero vector it returns. *)
TopHalfRead(irqVec) ==
    /\ Running
    /\ isr.runs < MaxInterrupts
    /\ IsrRead(irqVec)
    /\ isr' = [runs |-> isr.runs + 1, vector |-> irqVec,
               handled |-> IF irqVec = {} THEN IsrReturn(irqVec) ELSE FALSE, clear |-> <<>>]
    /\ UNCHANGED <<mmio, calls, arrived, probe>>

(* The top half stores the pending mask. *)
TopHalfStore ==
    /\ Running
    /\ IsrStore
    /\ arrived' = IF DpcSnapshotTaken THEN arrived \cup irq.irqVec ELSE arrived
    /\ UNCHANGED <<mmio, calls, isr, probe>>

(* The top half writes the clear register, queues the pass and returns. *)
TopHalfQueue ==
    /\ Running
    /\ IsrQueue
    /\ isr' = [isr EXCEPT !.handled = IsrReturn(irq.irqVec), !.clear = IsrClearWrites(irq.irqVec)]
    /\ UNCHANGED <<mmio, calls, arrived, probe>>

(* litepcie_EvtIsr with what it hands back. *)
TopHalf(vectors) ==
    \/ \E irqVec \in vectors : TopHalfRead(irqVec)
    \/ Unobserved /\ IsrLoad
    \/ TopHalfStore
    \/ TopHalfQueue

(* The deferred pass takes its snapshot of irqs_pending. *)
DpcVectorObserved ==
    /\ Running
    /\ DpcVector
    /\ arrived' = {}
    /\ UNCHANGED <<mmio, calls, isr, probe>>


NextIrq ==
    \/ \E k \in user_rings, n \in BlockLengths : NothingSubmitted /\ Unobserved /\ Submit(k, n, TRUE)
    \/ ChannelSteps
    \/ TopHalf(SUBSET UserBits)
    \/ Unobserved /\ DpcStart
    \/ DpcVectorObserved
    \/ \E s \in PassStatus : Unobserved /\ DpcStatus(s)
    \/ Unobserved /\ DpcLock
    \/ DpcLocked
    \/ DpcCall({TRUE})
    \/ DpcEnds

SpecIrq == InitIrq /\ [][NextIrq]_vars

(* ---- the interrupt enable mask ---------------------------------------------- *)
(* litepcie_enable_interrupt / litepcie_disable_interrupt and the framework  *)
(* callbacks litepcie_EvtIntEnable / litepcie_EvtIntDisable, with the log of *)
(* their register writes, interleaved with the top half and the deferred     *)
(* pass.  A write to CSR_PCIE_MSI_ENABLE sets the register; a write to       *)
(* CSR_PCIE_MSI_CLEAR acts on the hardware's latched sources, which the      *)
(* model represents by the vectors the top half may read: any of the bits    *)
(* of the rings and of one source that belongs to no ring.                   *)
InitMask ==
    /\ InitDevice
    /\ InitObserved
    /\ user_rings = ChannelRings(0)
    /\ irqs_requested = {}
    /\ msi_enable = {}
    /\ attach = NotAttached

OtherSource == 2 * DMA_CHANNELS + 3
MaskVectors == {v \in SUBSET (RingBits \cup {OtherSource}) : Cardinality(v) <= 1}

NextMask ==
    \/ \E k \in user_rings : litepcie_enable_interrupt(k, MaxControlCalls)
    \/ \E k \in user_rings : litepcie_disable_interrupt(k, MaxControlCalls)
    \/ Logged /\ Len(calls) < MaxControlCalls /\ litepcie_EvtIntEnable
    \/ Logged /\ Len(calls) < MaxControlCalls /\ litepcie_EvtIntDisable
    \/ litepcie_EvtIsr(MaskVectors, MaxRaceInterrupts)
    \/ Unobserved /\ DpcStart
    \/ Unobserved /\ DpcVector
    \/ \E s \in PassStatus : Unobserved /\ DpcStatus(s)
    \/ Unobserved /\ DpcLock
    \/ DpcLocked
    \/ DpcEnds

SpecMask == InitMask /\ [][NextMask]_vars

(* ---- two rings in use ------------------------------------------------------- *)
(* Requests arrive on two rings and the interrupts of both are enabled; the  *)
(* memory handle is always retrieved.  The two rings are the two directions  *)
(* of channel 0, or the ring ChannelRead works on in channel 0 and the ring   *)
(* ChannelWrite works on in channel 1.                                       *)
RingPairs == {ChannelRings(0), {<<0, "writer">>, <<1, "reader">>}}

InitDuplex ==
    /\ InitDevice
    /\ InitObserved
    /\ \E pair \in RingPairs :
           /\ user_rings = pair
           /\ irqs_requested = {interrupt_bit(k) : k \in pair}
           /\ msi_enable = {interrupt_bit(k) : k \in pair}
    /\ attach = NotAttached

(* One request for each direction. *)
SubmitOnRing(k, length) ==
    /\ \A r \in Requests : ~(reqs[r].used /\ reqs[r].ring = k)
    /\ Unobserved
    /\ Submit(k, length, TRUE)

NextDuplex ==
    \/ \E k \in user_rings, n \in RaceLengths : SubmitOnRing(k, n)
    \/ ChannelSteps
    \/ litepcie_EvtIsr(SUBSET UserBits \ {{}}, MaxRaceInterrupts)
    \/ litepcie_EvtDpc(PassStatus, {TRUE})

SpecDuplex == InitDuplex /\ [][NextDuplex]_vars


(* ======================================================================== *)
(* Properties of the race specification                                     *)
(* ======================================================================== *)
(* C1: in every reachable state sw_count <= hw_count on every ring, under   *)
(* any interleaving of start, stop, reconcile and fulfilment.  Stated for   *)
(* the states in which no start or stop is between its stores, so that the  *)
(* counters of a reset that is half done do not count.                      *)
C1_SwCountAtMostHwCount == CtlIdle => \A k \in Rings : sw_count[k] <= hw_count[k]

(* ======================================================================== *)
(* Properties of the requests                                               *)
(* ======================================================================== *)
LastCompletion(r) == completions[r][Len(completions[r])]

(* A step in which request r is completed once more. *)
CompletionStep(r) == Len(completions'[r]) = Len(completions[r]) + 1

(* The request in slot k waits there: it is unresolved. *)
Parked(k) == pending_request[k] # NULL /\ ~Resolved(pending_request[k])

(* No call is in progress for request r. *)
Quiescent(r) == \A x \in CtxIds : ctx[x].pc = "idle" \/ ctx[x].req # r

(* A step of the call in context x. *)
CallStep(x) == ctx[x].pc # "idle" /\ ctx'[x] # ctx[x]

(* No retrieve of a memory handle has failed so far. *)
NoRetrieveFailed ==
    \A r \in Requests : \A i \in 1 .. Len(completions[r]) :
        completions[r][i].status # "STATUS_ERROR"

(* C4: while a request is parked on a ring, no step of a call made for a    *)
(* different request overwrites or clears the slot or changes the remaining *)
(* byte count, until the parked request itself is completed.  Stated for    *)
(* the runs in which every retrieve of a memory handle succeeds.            *)
C4_ParkedSlotKept ==
    [][\A k \in Rings : \A x \in CtxIds :
          (NoRetrieveFailed /\ Parked(k) /\ CallStep(x) /\ ctx[x].req # pending_request[k]) =>
              \/ /\ pending_request'[k] = pending_request[k]
                 /\ pending_remaining_bytes'[k] = pending_remaining_bytes[k]
              \/ completions'[pending_request[k]] # <<>>]_vars

(* C9: a failed retrieve of the memory handle completes the request with    *)
(* the error and zero bytes, copies nothing, leaves the counters alone and  *)
(* does not leave the request in a parked slot.                             *)
C9_RetrieveFailureDoesNotPark ==
    [][\A r \in Requests :
          (CompletionStep(r) /\ completions'[r][Len(completions'[r])].status = "STATUS_ERROR") =>
              /\ completions'[r][Len(completions'[r])].information = 0
              /\ UNCHANGED <<hw_count, sw_count>>
              /\ \A k \in Rings : pending_request'[k] # r]_vars

(* The stores that end the call in context x: the step after the loop, the  *)
(* two stores that park, the two stores that clear.                         *)
C5_PassEnd(x) ==
    LET c == ctx[x] IN
    /\ (c.pc = "finish" /\ CallStep(x)) =>
          IF c.done > 0
            THEN /\ completions'[c.req] =
                       Append(completions[c.req], [status |-> "STATUS_SUCCESS", information |-> c.done])
                 /\ ctx'[x].pc = "clear"
                 /\ UNCHANGED slotVars
            ELSE /\ pending_request'[c.ring] = c.req
                 /\ ctx'[x].pc = "park"
                 /\ UNCHANGED completions
    /\ (c.pc = "park" /\ CallStep(x)) =>
          /\ c.done = 0
          /\ pending_remaining_bytes'[c.ring] = c.length
          /\ ctx'[x].pc = "idle"
    /\ (c.pc = "clear" /\ CallStep(x)) =>
          /\ c.done > 0
          /\ pending_request'[c.ring] = NULL
          /\ ctx'[x].pc = "clear bytes"
    /\ (c.pc = "clear bytes" /\ CallStep(x)) =>
          /\ pending_remaining_bytes'[c.ring] = 0
          /\ ctx'[x].pc = "idle"

(* A parked request without a call in progress has no bytes copied for it.  *)
C5_ParkedUntouched ==
    \A k \in Rings :
        (pending_request[k] # NULL /\ Quiescent(pending_request[k])) =>
            \A i \in 1 .. Len(completions[pending_request[k]]) :
                completions[pending_request[k]][i].information = 0

(* C5: the step after the loop of a pass that obtained the memory handle    *)
(* completes the request with the bytes copied when a block was copied, and *)
(* the next two steps of the call store NULL in the slot and 0 in the       *)
(* remaining byte count; it stores the request in the slot when none was    *)
(* copied, and the next step stores the full length passed in.  A parked    *)
(* request without a call in progress has no bytes copied for it.           *)
C5_CompleteOrParkWhole == [][\A x \in CtxIds : C5_PassEnd(x)]_vars /\ []C5_ParkedUntouched

(* One request was completed with bytes and its slot cleared, another one   *)
(* is parked.                                                               *)
C5_Witness ==
    \E r \in Requests, k \in Rings :
        /\ Resolved(r) /\ LastCompletion(r).information > 0 /\ Quiescent(r)
        /\ Parked(k) /\ Quiescent(pending_request[k])
        /\ pending_remaining_bytes[k] = reqs[pending_request[k]].length

(* Every completion reports whole blocks, and no more than the length of    *)
(* the request.                                                             *)
C6_Completions ==
    \A r \in Requests : \A i \in 1 .. Len(completions[r]) :
        /\ completions[r][i].information % DMA_BUFFER_SIZE = 0
        /\ completions[r][i].information <= reqs[r].length

(* A copy moves one whole block that lies within the length of the call,    *)
(* and the completion reports the blocks copied, within that length.        *)
C6_CopyStep(x) ==
    /\ (ctx[x].pc = "copy" /\ CallStep(x)) =>
          ctx[x].length - ctx[x].done >= DMA_BUFFER_SIZE
    /\ (ctx[x].pc = "store" /\ CallStep(x)) =>
          /\ ctx'[x].done = ctx[x].done + DMA_BUFFER_SIZE
          /\ ctx'[x].done <= ctx[x].length
    /\ (ctx[x].pc = "finish" /\ CallStep(x) /\ CompletionStep(ctx[x].req)) =>
          /\ completions'[ctx[x].req][Len(completions'[ctx[x].req])].information = ctx[x].done
          /\ ctx[x].done % DMA_BUFFER_SIZE = 0
          /\ ctx[x].done <= ctx[x].length

(* C6: every completion of a read or write request reports a byte count     *)
(* that is an exact multiple of block_size and does not exceed the          *)
(* requested length, and no fulfilment step copies fewer than block_size    *)
(* bytes: every copy moves one whole block.                                 *)
C6_WholeBlocks == []C6_Completions /\ [][\A x \in CtxIds : C6_CopyStep(x)]_vars

(* A request shorter than one block. *)
ShortRequest(r) == reqs[r].used /\ reqs[r].length < DMA_BUFFER_SIZE

(* A call entered with a length shorter than one block, in request context  *)
(* or as the retry of a deferred pass, past the retrieve of its memory      *)
(* handle.                                                                  *)
ShortCall(x) == ctx[x].pc # "idle" /\ ctx[x].length < DMA_BUFFER_SIZE

(* A call is in progress for a request shorter than one block. *)
CallOnShortRequest(x) == ctx[x].pc # "idle" /\ ShortRequest(ctx[x].req)

(* The completion that a step appends for request r. *)
NewCompletion(r) == completions'[r][Len(completions'[r])]

C24_CompletedAtMostOnce ==
    /\ \A r \in Requests : Len(completions[r]) <= 1
    /\ \A k \in Rings :
           (pending_request[k] # NULL /\ Resolved(pending_request[k])) =>
               \E x \in CtxIds : ctx[x].pc = "clear" /\ ctx[x].req = pending_request[k]


(* ======================================================================== *)
(* Properties of steady-state operation                                     *)
(* ======================================================================== *)
WholeBlocks(length) == length >= DMA_BUFFER_SIZE /\ length % DMA_BUFFER_SIZE = 0

(* The request-context pass of request r finds nothing available on a       *)
(* running ring: it leaves the loop without a copy, stores the request in   *)
(* the slot and then the full length in the remaining byte count.           *)
C7_Parks(r) ==
    LET c == ctx[r] IN
    /\ (/\ c.pc = "unlock" /\ c.done = 0 /\ WholeBlocks(c.length)
        /\ dma_enable[c.ring] = 1
        /\ c.val = 0
        /\ CallStep(r))
       => ctx'[r].pc = "finish" /\ ctx'[r].done = 0
    /\ (c.pc = "finish" /\ c.done = 0 /\ WholeBlocks(c.length) /\ CallStep(r))
       => pending_request'[c.ring] = r /\ ctx'[r].pc = "park"
    /\ (c.pc = "park" /\ WholeBlocks(c.length) /\ CallStep(r))
       => pending_remaining_bytes'[c.ring] = c.length

(* The deferred pass retries a request of n whole blocks on a running ring  *)
(* whose hw_count was reconciled to h >= n and whose sw_count counts this   *)
(* call's copies only.                                                      *)
C7_Case ==
    LET c == ctx[DpcCtx] IN
    /\ c.pc # "idle"
    /\ WholeBlocks(c.length)
    /\ dma_enable[c.ring] = 1
    /\ sw_count[c.ring] = c.done \div DMA_BUFFER_SIZE
    /\ hw_count[c.ring] >= c.length \div DMA_BUFFER_SIZE

(* The request of that retry is the parked one, with its full length. *)
C7_Parked ==
    LET c == ctx[DpcCtx] IN
    /\ pending_request[c.ring] = c.req
    /\ pending_remaining_bytes[c.ring] = c.length
    /\ ~Resolved(c.req)

(* The end of that retry. *)
C7_Retry ==
    LET c == ctx[DpcCtx] IN
    /\ (C7_Case /\ C7_Parked /\ c.pc = "finish" /\ CallStep(DpcCtx)) =>
          /\ completions'[c.req] = <<[status |-> "STATUS_SUCCESS", information |-> c.length]>>
          /\ sw_count'[c.ring] = c.length \div DMA_BUFFER_SIZE
          /\ hw_count'[c.ring] = hw_count[c.ring]
          /\ ctx'[DpcCtx].pc = "clear"
    /\ (C7_Case /\ c.pc = "clear" /\ CallStep(DpcCtx)) =>
          /\ pending_request'[c.ring] = NULL
          /\ UNCHANGED <<completions, hw_count, sw_count>>
    /\ (C7_Case /\ c.pc = "clear bytes" /\ CallStep(DpcCtx)) =>
          /\ pending_remaining_bytes'[c.ring] = 0
          /\ pending_request'[c.ring] = NULL
          /\ UNCHANGED <<completions, hw_count, sw_count>>

(* C7: a request of n whole blocks (n >= 1) whose request-context pass      *)
(* finds hw_count - sw_count = 0 on a running ring is parked with           *)
(* pending_remaining_bytes = n * block_size; the deferred pass that retries *)
(* it from sw_count = 0 with hw_count reconciled to h >= n completes the    *)
(* request once with n * block_size, at which point sw_count = n and        *)
(* hw_count = h, and then empties the slot.                                 *)
C7_ParkThenComplete == [][(\A r \in Requests : C7_Parks(r)) /\ C7_Retry]_vars

(* The deferred pass's call has completed the parked request of the spec's  *)
(* example and has returned: result 12288, sw_count = 3, hw_count = 5, no   *)
(* parked request.                                                          *)
C7_Witness ==
    \E r \in Requests :
        /\ dpc.pc = "call"
        /\ ctx[DpcCtx].pc = "idle"
        /\ ctx[r].pc = "idle"
        /\ reqs[r].length = MaxBlocks * DMA_BUFFER_SIZE
        /\ completions[r] =
               <<[status |-> "STATUS_SUCCESS", information |-> MaxBlocks * DMA_BUFFER_SIZE]>>
        /\ sw_count[DpcRing] = MaxBlocks
        /\ hw_count[DpcRing] = MaxRawIndex
        /\ pending_request[DpcRing] = NULL
        /\ pending_remaining_bytes[DpcRing] = 0

(* The end of the snapshot of the call in context x counts an overflow      *)
(* exactly when the snapshot, hw_count - sw_count as loaded, is more than   *)
(* DMA_BUFFER_COUNT - DMA_BUFFER_PER_IRQ, and then goes on to the copy; the *)
(* copy is followed by the two steps that advance sw_count by one; no other *)
(* step of the call touches the overflow counter.                           *)
C11_Step(x) ==
    LET c == ctx[x] IN
    /\ (c.pc = "hw" /\ CallStep(x)) =>
          ctx'[x].val = hw_count[c.ring] /\ ctx'[x].overflows = c.overflows
    /\ (c.pc = "sw" /\ CallStep(x)) =>
          ctx'[x].val = c.val - sw_count[c.ring] /\ ctx'[x].overflows = c.overflows
    /\ (c.pc = "unlock" /\ CallStep(x)) =>
          /\ ctx'[x].overflows =
                 c.overflows + (IF c.val > DMA_BUFFER_COUNT - DMA_BUFFER_PER_IRQ THEN 1 ELSE 0)
          /\ (c.val > DMA_BUFFER_COUNT - DMA_BUFFER_PER_IRQ) => ctx'[x].pc = "copy"
    /\ (c.pc = "copy" /\ CallStep(x)) =>
          /\ ctx'[x].pc = "count"
          /\ ctx'[x].overflows = c.overflows
    /\ (c.pc = "count" /\ CallStep(x)) =>
          /\ ctx'[x].pc = "store"
          /\ ctx'[x].overflows = c.overflows
    /\ (c.pc = "store" /\ CallStep(x)) =>
          /\ sw_count'[c.ring] = sw_count[c.ring] + 1
          /\ ctx'[x].done = c.done + DMA_BUFFER_SIZE
          /\ ctx'[x].overflows = c.overflows
    /\ (c.pc \in {"loop", "finish", "clear"} /\ CallStep(x)) =>
          ctx'[x].overflows = c.overflows

(* C11: in a fulfilment pass the overflow counter goes up by exactly one on *)
(* each copy step whose availability snapshot exceeds buffer_count minus    *)
(* the coalescing interval and on no other step, and on such a step the     *)
(* block is still copied and sw_count advances by one.                      *)
C11_OverflowCountedOncePerStep == [][\A x \in CtxIds : C11_Step(x)]_vars

(* A pass copied three blocks, the first of them on an overflowing          *)
(* snapshot.                                                                *)
C11_Witness ==
    \E x \in CtxIds :
        /\ ctx[x].pc = "finish"
        /\ ctx[x].done = MaxBlocks * DMA_BUFFER_SIZE
        /\ ctx[x].overflows = 1
        /\ sw_count[ctx[x].ring] = MaxBlocks

(* The positions of a call at which its next step loads or stores a         *)
(* counter, and those of the deferred pass.                                 *)
CallCounterPcs == {"hw", "sw", "count", "store"}
DpcCounterPcs ==
    {"mask", "mask store", "or", "or store", "compare", "compare hw", "wrap", "wrap store",
     "last", "last store"}

(* C16: in steady-state operation every read and every write of hw_count,  *)
(* hw_count_last and sw_count, by the reconcile of the deferred pass and by *)
(* read/write fulfilment (the snapshot, the sw_count increment after a      *)
(* copy, the sw_count read that picks the slot of the copy), is made by a   *)
(* context that holds the ring's lock, and the lock is not held by the      *)
(* context that copies a buffer.                                            *)
C16_CountersUnderLock ==
    [][/\ (dpc.pc \in DpcCounterPcs /\ dpc' # dpc) => lock[DpcRing] = DpcCtx
       /\ \A x \in CtxIds :
             /\ (ctx[x].pc \in CallCounterPcs /\ CallStep(x)) => lock[ctx[x].ring] = x
             /\ (ctx[x].pc = "copy" /\ CallStep(x)) => lock[ctx[x].ring] # x]_vars

(* Nothing is in progress or waiting to run for ring k: no fulfilment call, *)
(* no top half, no deferred pass, no queued pass, no pending interrupt bit. *)
RingQuiet(k) ==
    /\ \A x \in CtxIds : ctx[x].pc # "idle" => ctx[x].ring # k
    /\ dpc.pc = "idle"
    /\ irq.pc = "idle"
    /\ ctl.pc = "idle"
    /\ ~dpc_queued
    /\ interrupt_bit(k) \notin irqs_pending

(* C25: no lost wake-up: whenever a request of at least block_size bytes is *)
(* parked on a running direction and neither a fulfilment pass nor a        *)
(* deferred pass for that direction is in progress, hw_count - sw_count is  *)
(* 0; a reconcile that raises hw_count between the availability snapshot of *)
(* a request-context pass and its parking of the request does not leave the *)
(* request parked while ring slots are available.                           *)
C25_NoLostWakeup ==
    \A k \in Rings :
        (/\ pending_request[k] # NULL
         /\ ~Resolved(pending_request[k])
         /\ pending_remaining_bytes[k] >= DMA_BUFFER_SIZE
         /\ dma_enable[k] = 1
         /\ RingQuiet(k)) =>
            hw_count[k] - sw_count[k] = 0

(* ======================================================================== *)
(* Properties of the reconcile step                                         *)
(* ======================================================================== *)
(* The 32-bit register value of a is below that of b. *)
RawLess(a, b) == a.loops < b.loops \/ (a.loops = b.loops /\ a.index < b.index)

(* The positions of the deferred pass between taking the ring's lock and    *)
(* the last store of the reconcile.                                         *)
Reconciling == dpc.pc \in {"mask", "mask store", "or", "or store", "compare", "compare hw",
                           "wrap", "wrap store", "last", "last store"}

(* The loop status last read has been reconciled. *)
Reconciled == probe.trace # <<>> /\ dpc.pc # "lock" /\ ~Reconciling

(* C2: over any sequence of reconcile steps on one ring with no start or    *)
(* stop in between, for any raw loop-status values, hw_count after a step   *)
(* (when the pass releases the lock) is at least hw_count before it (when   *)
(* the pass took the lock), also when the raw value went down; between the  *)
(* steps hw_count does not change.                                          *)
C2_HwCountNonDecreasing ==
    /\ [](dpc.pc = "unlock" => hw_count[DpcRing] >= probe.hw)
    /\ [][~Reconciling => hw_count' = hw_count]_vars

(* Repeated wraparound: each of the last two raw values was below the one    *)
(* before it, and the count went past two wrap increments.                   *)
C2_Witness ==
    \E k \in user_rings :
        LET n == Len(probe.trace) IN
        /\ Reconciled
        /\ n >= 3
        /\ RawLess(probe.trace[n], probe.trace[n - 1])
        /\ RawLess(probe.trace[n - 1], probe.trace[n - 2])
        /\ probe.hw >= WrapIncrement(probe.depth)
        /\ hw_count[k] >= 2 * WrapIncrement(probe.depth)
        /\ hw_count[k] > probe.hw

(* The count the reconcile arithmetic gives for the old counters hw and     *)
(* last, raw status s = (L, x) and depth n: the old hw_count with its low    *)
(* log2(n)+16 bits cleared, combined with L*n + x, plus one wrap increment   *)
(* when that is below hw_count_last.                                         *)
C17_Reconciled(hw, last, s, n) ==
    LET wrap == Pow2(leftmost_bit(n) + 16)
        v == (hw \div wrap) * wrap + s.loops * n + s.index
    IN  IF v < last THEN v + wrap ELSE v

(* C17: a reconcile step with raw status (L, x) sets hw_count of its ring    *)
(* to the old hw_count with its low log2(buffer_count)+16 bits cleared,      *)
(* combined with L*buffer_count + x, plus exactly one wrap increment if and  *)
(* only if that value is less than hw_count_last; hw_count_last becomes the  *)
(* new hw_count; sw_count and the parked-request fields are unchanged.       *)
C17_ReconcileArithmetic ==
    /\ [](dpc.pc = "unlock" =>
             /\ hw_count[DpcRing] =
                    C17_Reconciled(probe.hw, probe.last, dpc.loop_status, probe.depth)
             /\ hw_count_last[DpcRing] = hw_count[DpcRing])
    /\ [][Reconciling =>
             /\ sw_count' = sw_count
             /\ UNCHANGED slotVars
             /\ \A k \in Rings \ {DpcRing} :
                    hw_count'[k] = hw_count[k] /\ hw_count_last'[k] = hw_count_last[k]]_vars

(* A ring whose count already held one wrap increment was reconciled with a  *)
(* raw status of non-zero loop count and slot index that fell below the      *)
(* recorded count: the high bits were kept, L*n + x replaced the low bits    *)
(* and a second wrap increment was added.                                    *)
C17_Witness ==
    \E k \in user_rings :
        LET s == probe.trace[Len(probe.trace)]
            wrap == Pow2(leftmost_bit(probe.depth) + 16)
        IN  /\ Reconciled
            /\ Len(probe.trace) >= 3
            /\ s.loops > 0 /\ s.index > 0
            /\ probe.hw >= wrap /\ probe.hw < 2 * wrap
            /\ probe.hw % wrap # 0
            /\ hw_count[k] = 2 * wrap + s.loops * probe.depth + s.index
            /\ hw_count_last[k] = hw_count[k]

(* The example of C3: depth 1024, counters freshly reset, raw (2, 5) then   *)
(* raw (0, 10), each reconciled.                                            *)
C3_AfterFirst ==
    Reconciled /\ probe.depth = 1024 /\ probe.trace = <<[loops |-> 2, index |-> 5]>>
C3_AfterSecond ==
    /\ Reconciled
    /\ probe.depth = 1024
    /\ probe.trace = <<[loops |-> 2, index |-> 5], [loops |-> 0, index |-> 10]>>

(* C3 as stated: the second hw_count is (2*1024+5) plus one wrap increment  *)
(* plus 10, and exceeds the first hw_count 2*1024+5.                        *)
C3_SecondIsFirstPlusWrapPlusIndex ==
    \A k \in user_rings :
        /\ C3_AfterFirst => hw_count[k] = 2 * 1024 + 5
        /\ C3_AfterSecond =>
              /\ hw_count[k] = (2 * 1024 + 5) + WrapIncrement(1024) + 10
              /\ hw_count[k] > 2 * 1024 + 5

(* C3 amended: the first hw_count is 2*1024+5; the second is one wrap       *)
(* increment (1 << (log2(1024)+16)) plus 10, the low bits of the first      *)
(* being replaced and not added, and it exceeds the first.                  *)
C3_SecondIsWrapPlusIndex ==
    \A k \in user_rings :
        /\ C3_AfterFirst => hw_count[k] = 2 * 1024 + 5
        /\ C3_AfterSecond =>
              /\ hw_count[k] = Pow2(10 + LoopStatusShift) + 10
              /\ hw_count[k] > 2 * 1024 + 5

C3_Witness ==
    \E k \in user_rings :
        C3_AfterSecond /\ hw_count[k] = 67108874 /\ hw_count_last[k] = 67108874

(* ======================================================================== *)
(* Liveness                                                                 *)
(* ======================================================================== *)
(* C8: every parked request is eventually completed and its slot cleared,   *)
(* provided the hardware keeps advancing the ring's loop status and the     *)
(* ring's interrupts keep being delivered and processed by the deferred     *)
(* pass.                                                                    *)
C8_ParkedEventuallyCompleted ==
    []<><<HardwareAhead>>_vars =>
        \A k \in Rings : \A r \in Requests :
            (pending_request[k] = r /\ ~Resolved(r)) ~> (Resolved(r) /\ pending_request[k] = NULL)

(* ======================================================================== *)
(* Properties of the attach                                                 *)
(* ======================================================================== *)
(* C10: the attach ends with a failure status when the resource list holds  *)
(* no memory resource, and then without any register access; when the       *)
(* interrupt setup fails; and when a ring buffer's physical address is      *)
(* zero.                                                                    *)
C10_AttachAbortsOnConfigurationError ==
    attach.state # "none" =>
        /\ ~HasKind(attach.inputs.resources, "Memory") =>
              /\ attach.state = "returned"
              /\ attach.status # "STATUS_SUCCESS"
              /\ attach.reg_accesses = 0
        /\ attach.interrupts = "failed" =>
              attach.state = "returned" /\ attach.status # "STATUS_SUCCESS"
        /\ attach.buffers = "zero address" =>
              attach.state = "returned" /\ attach.status # "STATUS_SUCCESS"

(* ======================================================================== *)
(* Properties of start, stop and teardown                                   *)
(* ======================================================================== *)
LastCall == calls[Len(calls)]

(* Ring k is stopped with its counters reset. *)
RingStopped(k) ==
    /\ hw_count[k] = 0 /\ hw_count_last[k] = 0 /\ sw_count[k] = 0
    /\ dma_enable[k] = 0

(* A step of a stop call. *)
StopStep ==
    \/ ctl.pc = "idle" /\ ctl'.pc = "stop stall"
    \/ ctl.pc \in {"stop stall", "stop hw_count", "stop hw_count_last", "stop sw_count"} /\ ctl' # ctl

(* The ring of that step. *)
StopRing == IF ctl.pc = "idle" THEN ctl'.ring ELSE ctl.ring

(* What each step of stop leaves behind. *)
C12_StopEffect ==
    /\ (ctl.pc = "stop stall" /\ ctl' # ctl) =>
          dma_enable'[ctl.ring] = 0 /\ ctl'.pc = "stop hw_count"
    /\ (ctl.pc = "stop hw_count" /\ ctl' # ctl) =>
          hw_count'[ctl.ring] = 0 /\ ctl'.pc = "stop hw_count_last"
    /\ (ctl.pc = "stop hw_count_last" /\ ctl' # ctl) =>
          hw_count_last'[ctl.ring] = 0 /\ ctl'.pc = "stop sw_count"
    /\ (ctl.pc = "stop sw_count" /\ ctl' # ctl) =>
          sw_count'[ctl.ring] = 0 /\ ctl'.pc = "idle"

(* C12: the steps of a stop write 0 to the enable register and store 0 in   *)
(* hw_count, hw_count_last and sw_count, in this order, from any state, so  *)
(* that a stop ends with the four at 0; and no step of a stop changes a     *)
(* ring that is already in that state, nor any other variable of the        *)
(* driver: stop followed by stop leaves the state of a single stop.         *)
C12_StopIdempotent ==
    [][StopStep =>
          /\ C12_StopEffect
          /\ \A k \in Rings \ {StopRing} :
                 /\ hw_count'[k] = hw_count[k] /\ hw_count_last'[k] = hw_count_last[k]
                 /\ sw_count'[k] = sw_count[k] /\ dma_enable'[k] = dma_enable[k]
          /\ UNCHANGED <<slotVars, irqVars, dpc, ctx, reqVars>>
          /\ RingStopped(StopRing) => UNCHANGED ringVars]_vars

(* A ring that had counted blocks was stopped twice in a row, and the       *)
(* second stop has returned.                                                *)
C12_Witness ==
    /\ ctl.pc = "idle"
    /\ Len(calls) = 3
    /\ calls[2].kind = "stop" /\ calls[3].kind = "stop"
    /\ calls[2].ring = calls[3].ring
    /\ RingStopped(calls[3].ring)
    /\ \E r \in Requests : Resolved(r) /\ LastCompletion(r).information > 0

(* The last control call was a start on ring k and has returned. *)
Started(k) ==
    /\ ctl.pc = "idle"
    /\ calls # <<>>
    /\ LastCall = [kind |-> "start", ring |-> k]

(* C15: after start on a direction the descriptor table holds exactly       *)
(* buffer_count entries, and entry i carries the length block_size and the  *)
(* physical address buffer_addr[i] of that direction's own ring, so that    *)
(* the entries address buffer_count distinct buffers.                       *)
C15_TableAddressesRing ==
    \A k \in Rings :
        Started(k) =>
            /\ Len(DescriptorTable) = DMA_BUFFER_COUNT
            /\ \A i \in 0 .. (DMA_BUFFER_COUNT - 1) :
                   /\ DescriptorTable[i + 1].length = DMA_BUFFER_SIZE
                   /\ DescriptorTable[i + 1].addr = buffer_addr(k, i)
            /\ Cardinality({DescriptorTable[i].addr : i \in 1 .. Len(DescriptorTable)})
                   = DMA_BUFFER_COUNT

(* The positions of access a in the log of the current call. *)
Positions(a) == {i \in 1 .. Len(mmio) : mmio[i] = a}

(* C19: litepciedrv_DeviceClose disables the writer and the reader          *)
(* direction of every channel and writes zero to the interrupt-enable       *)
(* register before it unmaps the register region, and makes no register     *)
(* access after the unmap.                                                  *)
C19_CloseDisablesBeforeUnmap ==
    /\ ctl.pc = "close unmap" =>
          /\ Positions(Unmap) = {}
          /\ \A k \in Rings : Positions(Write("ENABLE", k, 0)) # {}
          /\ Positions(Write("MSI_ENABLE", Device, {})) # {}
          /\ \A k \in Rings : dma_enable[k] = 0
          /\ msi_enable = {}
    /\ ctl.pc = "closed" =>
          /\ Positions(Unmap) = {Len(mmio)}
          /\ \A k \in Rings : \E i \in Positions(Write("ENABLE", k, 0)) : i < Len(mmio)
          /\ \E i \in Positions(Write("MSI_ENABLE", Device, {})) : i < Len(mmio)
          /\ \A k \in Rings : dma_enable[k] = 0
          /\ msi_enable = {}

(* The device was closed after a ring had been started and its interrupt    *)
(* serviced.                                                                *)
C19_Witness ==
    /\ ctl.pc = "closed"
    /\ calls[1].kind = "start"
    /\ \E k \in user_rings : hw_count[k] > 0

(* The log of a start call on ring k is in order: the direction is        *)
(* disabled, the table flushed, DMA_BUFFER_COUNT descriptors committed, the  *)
(* table committed as a loop, and the direction enabled by the last write.  *)
StartOrdered(k) ==
    LET flush == Positions(Write("TABLE_FLUSH", k, 1))
        loop == Positions(Write("TABLE_LOOP_PROG_N", k, 1))
        we == {i \in 1 .. Len(mmio) : mmio[i].reg = "TABLE_WE"}
    IN  /\ mmio[1] = Write("ENABLE", k, 0)
        /\ Cardinality(flush) = 1
        /\ Cardinality(loop) = 1
        /\ Positions(Write("ENABLE", k, 1)) = {Len(mmio)}
        /\ Cardinality(we) = DMA_BUFFER_COUNT
        /\ \A f \in flush, c \in loop :
               /\ 1 < f /\ f < c /\ c < Len(mmio)
               /\ \A i \in we : f < i /\ i < c /\ mmio[i].ring = k

(* C20: start on a direction disables the direction, flushes the table,     *)
(* programs all buffer_count descriptors, commits the table as a loop and   *)
(* only then enables the direction, and hw_count, hw_count_last and         *)
(* sw_count of the direction are all zero at the moment the enable is       *)
(* written.                                                                 *)
C20_StartOrderAndZeroCounters ==
    [][\A k \in Rings :
          (ctl.pc = "start enable" /\ ctl.ring = k /\ ctl'.pc = "idle") =>
              /\ StartOrdered(k)'
              /\ hw_count[k] = 0
              /\ hw_count_last[k] = 0
              /\ sw_count[k] = 0]_vars

(* ======================================================================== *)
(* Properties of the interrupt path                                         *)
(* ======================================================================== *)
(* The step is the entry of the top half: the read of the vector. *)
IsrStep == isr'.runs = isr.runs + 1

(* What the top half never touches. *)
C13_Frame == UNCHANGED <<ringVars, slotVars, irqs_requested, msi_enable, dpc, ctx, reqVars>>

(* C13: a top half that reads a zero vector returns "not handled" and       *)
(* changes nothing: the pending mask stays, nothing is written to the clear *)
(* register, no deferred pass is scheduled.  One that reads a non-zero      *)
(* vector ORs exactly those bits into the pending mask (the mask it loaded, *)
(* with those bits set, is what it stores), writes exactly those bits to    *)
(* the clear register, schedules the deferred pass and returns "handled",   *)
(* and touches no counter and no parked request.                            *)
C13_TopHalfOutcome ==
    [][/\ IsrStep =>
             /\ C13_Frame
             /\ UNCHANGED <<irqs_pending, dpc_queued>>
             /\ isr'.clear = <<>>
             /\ isr'.handled = FALSE
             /\ IF isr'.vector = {} THEN irq' = IdleIrq
                                    ELSE irq'.pc = "load" /\ irq'.irqVec = isr'.vector
       /\ (irq.pc = "load" /\ irq' # irq) =>
             /\ C13_Frame
             /\ UNCHANGED <<irqs_pending, dpc_queued, isr>>
             /\ irq'.val = irqs_pending
             /\ irq'.pc = "store"
       /\ (irq.pc = "store" /\ irq' # irq) =>
             /\ C13_Frame
             /\ UNCHANGED <<dpc_queued, isr>>
             /\ irqs_pending' = irq.val \cup isr.vector
             /\ irq.val = irqs_pending => irqs_pending' = irqs_pending \cup isr.vector
             /\ irq'.pc = "queue"
       /\ (irq.pc = "queue" /\ irq' # irq) =>
             /\ C13_Frame
             /\ UNCHANGED irqs_pending
             /\ isr'.clear = <<Write("MSI_CLEAR", Device, isr.vector)>>
             /\ isr'.handled = TRUE
             /\ dpc_queued' = TRUE
             /\ irq' = IdleIrq]_vars

(* The top half has run at least twice, the last time with both bits, and   *)
(* has returned, while a request was parked and a ring had counted blocks.  *)
C13_Witness ==
    /\ isr.runs >= 2
    /\ irq.pc = "idle"
    /\ isr.vector = UserBits
    /\ isr.handled
    /\ isr.vector \subseteq irqs_pending
    /\ dpc_queued
    /\ \E k \in Rings : Parked(k) /\ \E j \in Rings : hw_count[j] > 0

(* C14: a bit the top half ORs into irqs_pending while a deferred pass is   *)
(* running is still set in irqs_pending when that pass ends; the pass       *)
(* clears only bits it took from its own snapshot and processed.            *)
C14_ArrivedBitsSurvivePass ==
    [][(dpc.pc = "finish store" /\ dpc'.pc = "idle") =>
          /\ arrived \subseteq irqs_pending'
          /\ (irqs_pending \ irqs_pending') \subseteq dpc.clear_mask
          /\ dpc.clear_mask \subseteq dpc.irq_vector]_vars

(* A step of the deferred pass: of its loop, or of the call it makes. *)
PassStep == dpc' # dpc \/ ctx'[DpcCtx] # ctx[DpcCtx]

(* The positions of the pass inside the block of a direction. *)
DpcBlockPcs ==
    {"status", "lock", "mask", "mask store", "or", "or store", "compare", "compare hw", "wrap",
     "wrap store", "last", "last store", "unlock", "test", "request", "length", "call"}

(* C21: a deferred pass reconciles and retries only for the directions      *)
(* whose interrupt bit is set in (pending & enabled) at the start of the    *)
(* pass; for every other direction the counters, the parked request and the *)
(* pending bit are unchanged by every step of the pass; for a processed     *)
(* direction the reconcile is finished and the lock released before the     *)
(* retry, and the retry happens only if a request is parked.                *)
C21_PassHandlesSnapshotOnly ==
    [][PassStep =>
          LET call == ctx[DpcCtx] IN
          /\ dpc.pc = "idle" => dpc'.irq_enable = msi_enable
          /\ dpc.pc = "vector" => dpc'.irq_vector = irqs_pending \cap dpc.irq_enable
          /\ (dpc.pc \notin {"idle", "vector"} /\ dpc'.pc # "idle") => dpc'.irq_vector = dpc.irq_vector
          /\ dpc.clear_mask \subseteq dpc.irq_vector
          /\ \A k \in Rings :
                 (dpc.pc \in {"idle", "vector"} \/ interrupt_bit(k) \notin dpc.irq_vector) =>
                     /\ hw_count'[k] = hw_count[k]
                     /\ hw_count_last'[k] = hw_count_last[k]
                     /\ sw_count'[k] = sw_count[k]
                     /\ pending_request'[k] = pending_request[k]
                     /\ pending_remaining_bytes'[k] = pending_remaining_bytes[k]
                     /\ (interrupt_bit(k) \in irqs_pending') = (interrupt_bit(k) \in irqs_pending)
          /\ dpc.pc = "finish" => dpc'.pending = irqs_pending
          /\ dpc.pc \in DpcBlockPcs => interrupt_bit(DpcRing) \in dpc.irq_vector
          /\ dpc.pc = "last store" =>
                 /\ dpc'.pc = "unlock" /\ dpc'.pos = dpc.pos
                 /\ hw_count_last'[DpcRing] = dpc.val
                 /\ ctx'[DpcCtx] = call
          /\ dpc'.pc = "test" => dpc.pc = "unlock" /\ lock'[DpcRing] # DpcCtx
          /\ dpc'.pc = "request" => dpc.pc = "test" /\ pending_request[DpcRing] # NULL
          /\ (dpc.pc = "test" /\ pending_request[DpcRing] = NULL) =>
                 ctx'[DpcCtx] = call /\ dpc'.pc \in {"status", "finish"}
          /\ dpc'.pc = "length" => dpc.pc = "request" /\ dpc'.request = pending_request[DpcRing]
          /\ (call.pc = "idle" /\ ctx'[DpcCtx].pc # "idle") =>
                 /\ dpc.pc = "length"
                 /\ dpc.request # NULL
                 /\ lock[DpcRing] # DpcCtx
                 /\ ctx'[DpcCtx].ring = DpcRing
                 /\ ctx'[DpcCtx].req = dpc.request
                 /\ ctx'[DpcCtx].length = pending_remaining_bytes[DpcRing]
          /\ call.pc # "idle" => (dpc.pc = "call" /\ call.ring = DpcRing)]_vars

(* ======================================================================== *)
(* Properties of requests on two rings                                      *)
(* ======================================================================== *)
(* The ring a step of context x works on: the ring of the call it is in, or *)
(* of the call it enters.                                                   *)
FulfilmentRing(x) == IF ctx[x].pc = "idle" THEN ctx'[x].ring ELSE ctx[x].ring

(* C22: read fulfilment changes only the writer ring's sw_count and the     *)
(* parked read request fields of its channel, write fulfilment only the     *)
(* reader ring's sw_count and the parked write request fields; neither      *)
(* changes hw_count or hw_count_last of any ring, the other direction's     *)
(* state or another channel's state.                                        *)
C22_FulfilmentFrame ==
    [][\A x \in CtxIds :
          ctx'[x] # ctx[x] =>
              /\ hw_count' = hw_count
              /\ hw_count_last' = hw_count_last
              /\ dma_enable' = dma_enable
              /\ irqs_pending' = irqs_pending /\ irqs_requested' = irqs_requested
              /\ msi_enable' = msi_enable
              /\ \A o \in Rings \ {FulfilmentRing(x)} :
                     /\ sw_count'[o] = sw_count[o]
                     /\ pending_request'[o] = pending_request[o]
                     /\ pending_remaining_bytes'[o] = pending_remaining_bytes[o]]_vars

(* A call has copied a block on a ring of one channel while a ring of       *)
(* another channel had reconciled blocks and a parked request.              *)
C22_Witness ==
    \E x \in CtxIds :
        /\ ctx[x].pc \in {"finish", "clear"}
        /\ ctx[x].done > 0
        /\ sw_count[ctx[x].ring] > 0
        /\ \E o \in Rings :
               /\ o[1] # ctx[x].ring[1]
               /\ hw_count[o] > 0
               /\ pending_request[o] # NULL
               /\ ~Resolved(pending_request[o])

(* ======================================================================== *)
(* Properties of the interrupt enable mask                                  *)
(* ======================================================================== *)
(* The step is the entry of a call of the given kind on ring k. *)
MaskCall(kind, k) == calls' = Append(calls, [kind |-> kind, ring |-> k])

(* The step is the register access of such a call. *)
MaskWrite(kind, k) == ctl.pc = kind /\ ctl.ring = k /\ ctl'.pc = "idle"

(* C23: enable_interrupt(k) sets bit k of the enabled mask and leaves every *)
(* other bit unchanged, writes the resulting mask to the enable register    *)
(* and leaves no pending state for a newly enabled source k that predates   *)
(* the enable (pending bit k is cleared); disable_interrupt(k) clears bit k *)
(* of the enabled mask, leaves every other bit unchanged and writes the     *)
(* resulting mask to the enable register.                                   *)
C23_EnableDisableMask ==
    [][\A k \in Rings :
          /\ MaskCall("enable", k) => irqs_requested' = irqs_requested \cup {interrupt_bit(k)}
          /\ MaskWrite("enable write", k) =>
                /\ mmio'[1] = Write("MSI_ENABLE", Device, irqs_requested)
                /\ msi_enable' = irqs_requested
                /\ \E i \in 2 .. Len(mmio') : mmio'[i] = Write("MSI_CLEAR", Device, {interrupt_bit(k)})
                /\ interrupt_bit(k) \notin msi_enable => interrupt_bit(k) \notin irqs_pending'
          /\ MaskCall("disable", k) => irqs_requested' = irqs_requested \ {interrupt_bit(k)}
          /\ MaskWrite("disable write", k) =>
                /\ mmio' = <<Write("MSI_ENABLE", Device, irqs_requested)>>
                /\ msi_enable' = irqs_requested]_vars

====
